---------------------------- MODULE BuilderProofs ----------------------------
(***************************************************************************)
(* Proofs about Builder, for any builders, processes and jobs: what a      *)
(* builder loads is its own, and workspaces are owned by whoever uses      *)
(* them.                                                                   *)
(***************************************************************************)
EXTENDS Builder, TLAPS

(***************************************************************************)
(* A compiler that has read its source knows what it compiles.             *)
(***************************************************************************)
Compiling == \A b \in Builders : pc[b] \in {"link", "linking"} => input[b] # "none"

(***************************************************************************)
(* What a file name stands for, on disk, in a process or in a builder: a   *)
(* library built for a job of that name.                                   *)
(***************************************************************************)
OfFile(content, f) ==
    content.state \in {"empty", "full"} =>
        \E a \in Builders : FileOf(a) = f /\ content.job = JobOf[a]

Faithful ==
    /\ \A f \in Files : OfFile(object[f], f)
    /\ \A p \in Processes, f \in Files : OfFile(mapped[p][f], f)
    /\ \A b \in Builders : OfFile(lib[b], FileOf(b))

(***************************************************************************)
(* Ownership of device memory: a builder's workspace is its own, and is    *)
(* never without the library that frees it.                                *)
(***************************************************************************)
Owned ==
    /\ \A b \in Builders : workspace[b] # Null => owner[workspace[b]] = b /\ lib[b] # Absent
    /\ NoLeak
    /\ LaunchOwnsWorkspace

TInv == TypeOK /\ Compiling

-----------------------------------------------------------------------------

\* Every builder's file is one of Files.
LEMMA FileOfBuilder == ASSUME NEW b \in Builders PROVE FileOf(b) \in Files
  BY DEF Files

\* A missing library is typed, and is not a half-written one.
LEMMA AbsentContents ==
    /\ Absent \in Contents \ {Half}
    /\ Half \in Contents
    /\ Absent.state = "none" /\ Half.state = "half"
  BY DEF Contents, Absent, Half

\* What a compiler writes is typed, and carries its job.
LEMMA BuiltContents ==
    ASSUME NEW b \in Builders, NEW t \in {"empty", "full"}
    PROVE  /\ Built(JobOf[b], t) \in Contents \ {Half}
           /\ Built(JobOf[b], t).job = JobOf[b]
  BY DEF Contents, Half, Built

\* Before the first build() everything is absent.
LEMMA InitTyped == Init => TInv
  <1> SUFFICES ASSUME Init PROVE TInv
    OBVIOUS
  <1>1. TypeOK
    BY BuilderAssumption, AbsentContents DEF Init, TypeOK
  <1>2. Compiling
    BY DEF Init, Compiling
  <1>. QED  BY <1>1, <1>2 DEF TInv

\* What dlopen returns is never half written.
LEMMA OpenedTyped ==
    ASSUME TypeOK, NEW b \in Builders, Opened(b).state \notin {"none", "half"}
    PROVE  Opened(b) \in Contents \ {Half}
  <1>1. FileOf(b) \in Files /\ ProcessOf[b] \in Processes
    BY FileOfBuilder, BuilderAssumption
  <1>. QED  BY <1>1, AbsentContents DEF TypeOK, Opened
\* Every step keeps the types, and a compiler that links has read its source.
LEMMA TypedStep ==
    ASSUME TInv, [Next]_vars
    PROVE  TInv'
  <1>. USE BuilderAssumption, FileOfBuilder, AbsentContents DEF TInv, TypeOK, Compiling
  <1>1. ASSUME NEW b \in Builders, Begin(b) PROVE TInv'
    BY <1>1 DEF Begin, Goto, Disturb, Others, Busy, device
  <1>2. ASSUME NEW b \in Builders, Check(b) PROVE TInv'
    BY <1>2 DEF Check, Goto, files, device
  <1>3. ASSUME NEW b \in Builders, OpenSource(b) PROVE TInv'
    <2>1. CASE Code(b) \in dirs
      BY <1>3, <2>1 DEF OpenSource, Goto, Raise, device
    <2>2. CASE ~(Code(b) \in dirs)
      BY <1>3, <2>2 DEF OpenSource, Goto, Raise, device
    <2>. QED  BY <2>1, <2>2
  <1>4. ASSUME NEW b \in Builders, WriteSource(b) PROVE TInv'
    BY <1>4 DEF WriteSource, Goto, device
  <1>5. ASSUME NEW b \in Builders, ReadSource(b) PROVE TInv'
    <2>1. CASE source[FileOf(b)] # "none"
      <3>1. input' \in [Builders -> {"none", "empty", "full"}]
        <4>1. source[FileOf(b)] \in {"none", "empty", "full"}
          OBVIOUS
        <4>2. input' = [input EXCEPT ![b] = source[FileOf(b)]]
          BY <1>5, <2>1 DEF ReadSource
        <4>. QED  BY <4>1, <4>2
      <3>2. Compiling'
        BY <1>5, <2>1 DEF ReadSource, Goto
      <3>3. /\ pc' = [pc EXCEPT ![b] = "link"]
            /\ UNCHANGED <<builds, failure, lib, workspace, owner, running, dirs, source,
                           object, attached, mapped, disturbed, crashes>>
        BY <1>5, <2>1 DEF ReadSource, Goto, device
      <3>. QED  BY <3>1, <3>2, <3>3
    <2>2. CASE ~(source[FileOf(b)] # "none")
      BY <1>5, <2>2 DEF ReadSource, Goto, Raise, device
    <2>. QED  BY <2>1, <2>2
  <1>6. ASSUME NEW b \in Builders, OpenObject(b) PROVE TInv'
    <2>1. CASE Code(b) \in dirs
      <3>1. attached' \in [Builders -> BOOLEAN]
        <4>1. attached' = [a \in Builders |->
                              IF a = b THEN TRUE
                              ELSE attached[a] /\ ~(/\ FileOf(a) = FileOf(b)
                                                    /\ pc[a] = "linking")]
          BY <1>6, <2>1 DEF OpenObject
        <4>. QED  BY <4>1, Zenon
      <3>2. object' \in [Files -> Contents]
        BY <1>6, <2>1 DEF OpenObject
      <3>3. /\ pc' = [pc EXCEPT ![b] = "linking"] /\ pc[b] = "link"
            /\ UNCHANGED <<builds, failure, lib, workspace, owner, running, dirs, source,
                           input, mapped, disturbed, crashes>>
        BY <1>6, <2>1 DEF OpenObject, Goto, device
      <3>. QED  BY <3>1, <3>2, <3>3
    <2>2. CASE ~(Code(b) \in dirs)
      BY <1>6, <2>2 DEF OpenObject, Goto, Raise, device
    <2>. QED  BY <2>1, <2>2
  <1>7. ASSUME NEW b \in Builders, WriteObject(b) PROVE TInv'
    BY BuiltContents, <1>7 DEF WriteObject, Goto, device
  <1>8. ASSUME NEW b \in Builders, ToolchainFails(b) PROVE TInv'
    BY <1>8 DEF ToolchainFails, Goto, Raise, files, device
  <1>9. ASSUME NEW b \in Builders, LoadLibrary(b) PROVE TInv'
    <2>1. CASE Opened(b).state \in {"none", "half"}
      BY OpenedTyped, <1>9, <2>1 DEF LoadLibrary, Goto, Raise, files, device
    <2>2. CASE ~(Opened(b).state \in {"none", "half"})
      <3>1. Opened(b) \in Contents \ {Half}
        BY <2>2, OpenedTyped
      <3>2. lib' = [lib EXCEPT ![b] = Opened(b)]
        BY <1>9, <2>2 DEF LoadLibrary
      <3>3. mapped' = [mapped EXCEPT ![ProcessOf[b]][FileOf(b)] = Opened(b)]
        BY <1>9, <2>2 DEF LoadLibrary
      <3>4. mapped' \in [Processes -> [Files -> Contents \ {Half}]]
        BY <3>1, <3>3
      <3>5. PICK what \in {"none", "files"} :
              /\ pc' = [pc EXCEPT ![b] = "idle"]
              /\ failure' = [failure EXCEPT ![b] = what]
        BY <1>9, <2>2 DEF LoadLibrary, Raise, Goto
      <3>6. UNCHANGED <<builds, workspace, owner, running, dirs, source, object, attached,
                        input, disturbed, crashes>>
        BY <1>9 DEF LoadLibrary, files, device
      <3>. QED  BY <3>1, <3>2, <3>4, <3>5, <3>6
    <2>. QED  BY <2>1, <2>2
  <1>10. ASSUME NEW b \in Builders, Run(b) PROVE TInv'
    BY <1>10 DEF Run, Goto, files
  <1>11. ASSUME NEW b \in Builders, Finish(b) PROVE TInv'
    BY <1>11 DEF Finish, Goto, files
  <1>12. ASSUME NEW b \in Builders, Cleanup(b) PROVE TInv'
    BY <1>12, ZenonT(60) DEF Cleanup, Goto, TearDown, Disturb, files
  <1>13. ASSUME NEW b \in Builders, RemoveFiles(b) PROVE TInv'
    BY <1>13 DEF RemoveFiles, Goto, InDir, device
  <1>14. ASSUME NEW b \in Builders, RemoveDir(b) PROVE TInv'
    BY <1>14 DEF RemoveDir, Goto, device
  <1>15. ASSUME NEW b \in Builders, Drop(b) PROVE TInv'
    BY <1>15 DEF Drop, Goto, TearDown, files
  <1>16. ASSUME NEW p \in Processes, Crash(p) PROVE TInv'
    BY <1>16 DEF Crash
  <1>17. CASE UNCHANGED vars
    BY <1>17 DEF vars
  <1>. QED
    BY <1>1, <1>2, <1>3, <1>4, <1>5, <1>6, <1>7, <1>8, <1>9,
       <1>10, <1>11, <1>12, <1>13, <1>14, <1>15, <1>16, <1>17 DEF Next

-----------------------------------------------------------------------------

\* dlopen returns a library of the builder's own file.
LEMMA OpenedFaithful ==
    ASSUME TInv, Faithful, NEW b \in Builders
    PROVE  OfFile(Opened(b), FileOf(b))
  BY FileOfBuilder, BuilderAssumption DEF Faithful, Opened

\* No step puts a library of another job under a file's name.
LEMMA FaithfulStep ==
    ASSUME TInv, Faithful, [Next]_vars
    PROVE  Faithful'
  <1>1. CASE UNCHANGED <<object, mapped, lib>>
    BY <1>1 DEF Faithful, OfFile
  <1>2. ASSUME NEW b \in Builders, OpenObject(b) PROVE Faithful'
    <2>1. /\ object' = object \/ object' = [object EXCEPT ![FileOf(b)] = Half]
          /\ UNCHANGED <<mapped, lib>>
      BY <1>2 DEF OpenObject, Raise
    <2>. QED  BY <2>1, AbsentContents DEF Faithful, OfFile, TInv, TypeOK
  <1>3. ASSUME NEW b \in Builders, WriteObject(b) PROVE Faithful'
    <2>1. /\ object' = [object EXCEPT ![FileOf(b)] =
                            IF attached[b] THEN Built(JobOf[b], input[b]) ELSE @]
          /\ UNCHANGED <<mapped, lib>>
      BY <1>3 DEF WriteObject
    <2>2. OfFile(Built(JobOf[b], input[b]), FileOf(b))
      BY DEF OfFile, Built
    <2>3. \A f \in Files : OfFile(object'[f], f)
      BY <2>1, <2>2 DEF Faithful, TInv, TypeOK
    <2>. QED  BY <2>1, <2>3 DEF Faithful, OfFile
  <1>4. ASSUME NEW b \in Builders, ToolchainFails(b) PROVE Faithful'
    <2>1. /\ object' = object \/ object' = [object EXCEPT ![FileOf(b)] = Absent]
          /\ UNCHANGED <<mapped, lib>>
      BY <1>4 DEF ToolchainFails
    <2>. QED  BY <2>1, AbsentContents DEF Faithful, OfFile, TInv, TypeOK
  <1>5. ASSUME NEW b \in Builders, LoadLibrary(b) PROVE Faithful'
    <2>1. CASE UNCHANGED <<lib, mapped>>
      BY <2>1, <1>1, <1>5 DEF LoadLibrary, files
    <2>2. CASE /\ lib' = [lib EXCEPT ![b] = Opened(b)]
               /\ mapped' = [mapped EXCEPT ![ProcessOf[b]][FileOf(b)] = Opened(b)]
      <3>1. OfFile(Opened(b), FileOf(b))
        BY OpenedFaithful
      <3>2. object' = object
        BY <1>5 DEF LoadLibrary, files
      <3>3. \A a \in Builders : OfFile(lib'[a], FileOf(a))
        BY <2>2, <3>1 DEF Faithful, TInv, TypeOK
      <3>4. \A p \in Processes, f \in Files : OfFile(mapped'[p][f], f)
        BY <2>2, <3>1 DEF Faithful, TInv, TypeOK
      <3>. QED  BY <3>2, <3>3, <3>4 DEF Faithful, OfFile
    <2>. QED  BY <1>5, <2>1, <2>2 DEF LoadLibrary
  <1>6. ASSUME NEW b \in Builders, Cleanup(b) PROVE Faithful'
    <2>1. lib' = [lib EXCEPT ![b] = Absent] /\ UNCHANGED <<object, mapped>>
      BY <1>6 DEF Cleanup, files
    <2>. QED  BY <2>1, AbsentContents DEF Faithful, OfFile, TInv, TypeOK
  <1>7. ASSUME NEW b \in Builders, RemoveFiles(b) PROVE Faithful'
    <2>1. /\ \A f \in Files : object'[f] = Absent \/ object'[f] = object[f]
          /\ UNCHANGED <<lib, mapped>>
      BY <1>7 DEF RemoveFiles
    <2>. QED  BY <2>1, AbsentContents DEF Faithful, OfFile
  <1>8. ASSUME NEW p \in Processes, Crash(p) PROVE Faithful'
    <2>1. /\ \A b \in Builders : lib'[b] = Absent \/ lib'[b] = lib[b]
          /\ \A q \in Processes, f \in Files :
                mapped'[q][f] = Absent \/ mapped'[q][f] = mapped[q][f]
          /\ UNCHANGED object
      BY <1>8 DEF Crash, TInv, TypeOK
    <2>. QED  BY <2>1, AbsentContents DEF Faithful, OfFile
  <1>9. ASSUME NEW b \in Builders,
               \/ Begin(b) \/ Check(b) \/ OpenSource(b) \/ WriteSource(b) \/ ReadSource(b)
               \/ Run(b) \/ Finish(b) \/ RemoveDir(b) \/ Drop(b)
        PROVE  Faithful'
    BY <1>1, <1>9 DEF Begin, Check, OpenSource, WriteSource, ReadSource, Run, Finish,
                      RemoveDir, Drop, files
  <1>10. CASE UNCHANGED vars
    BY <1>1, <1>10 DEF vars
  <1>. QED
    BY <1>2, <1>3, <1>4, <1>5, <1>6, <1>7, <1>8, <1>9, <1>10 DEF Next

\* Steps that leave the device, the libraries and the living alone.
LEMMA OwnedKept ==
    ASSUME Owned, UNCHANGED <<workspace, owner, running>>,
           \A b \in Builders : lib[b] # Absent => lib'[b] # Absent,
           \A b \in Builders : pc[b] # "gone" => pc'[b] # "gone",
           TInv
    PROVE  Owned'
  BY DEF Owned, NoLeak, LaunchOwnsWorkspace, TInv, TypeOK

\* Freeing a workspace leaves its builder with none, and nothing in flight.
LEMMA TornDown ==
    ASSUME TInv, Owned, NEW b \in Builders, TearDown(b), running' = running
    PROVE  /\ \A a \in Builders : workspace'[a] # Null =>
                  a # b /\ workspace'[a] = workspace[a] /\ owner'[workspace[a]] = a
           /\ \A h \in Handles : owner'[h] # Nobody =>
                  owner'[h] # b /\ owner'[h] = owner[h] /\ workspace'[owner[h]] = h
           /\ LaunchOwnsWorkspace'
  <1>. USE BuilderAssumption DEF TInv, TypeOK
  <1>1. CASE workspace[b] # Null /\ lib[b] # Absent
    <2>1. /\ workspace[b] \in Handles
          /\ workspace[b] \notin running[b]
          /\ owner' = [owner EXCEPT ![workspace[b]] = Nobody]
          /\ workspace' = [workspace EXCEPT ![b] = Null]
      BY <1>1 DEF TearDown
    <2>2. owner[workspace[b]] = b
      BY <1>1 DEF Owned
    <2>3. ASSUME NEW a \in Builders, workspace'[a] # Null
          PROVE  a # b /\ workspace'[a] = workspace[a] /\ owner'[workspace[a]] = a
      BY <2>1, <2>2, <2>3 DEF Owned
    <2>4. ASSUME NEW h \in Handles, owner'[h] # Nobody
          PROVE  owner'[h] # b /\ owner'[h] = owner[h] /\ workspace'[owner[h]] = h
      BY <2>1, <2>2, <2>4 DEF Owned, NoLeak
    <2>5. ASSUME NEW a \in Builders, NEW h \in running[a]
          PROVE  owner'[h] = a
      <3>1. owner[h] = a /\ h \in Handles
        BY DEF Owned, LaunchOwnsWorkspace
      <3>2. h # workspace[b]
        BY <3>1, <2>1, <2>2
      <3>. QED  BY <3>1, <3>2, <2>1
    <2>. QED  BY <2>3, <2>4, <2>5 DEF LaunchOwnsWorkspace
  <1>2. CASE ~(workspace[b] # Null /\ lib[b] # Absent)
    <2>1. owner' = owner /\ workspace' = workspace /\ workspace[b] = Null
      BY <1>2 DEF TearDown, Owned
    <2>. QED  BY <2>1 DEF Owned, NoLeak, LaunchOwnsWorkspace
  <1>. QED  BY <1>1, <1>2

\* No step gives away, forgets or frees a workspace in use.
LEMMA OwnedStep ==
    ASSUME TInv, Owned, [Next]_vars
    PROVE  Owned'
  <1>. USE BuilderAssumption
  <1>1. ASSUME NEW b \in Builders, Run(b) PROVE Owned'
    <2>1. PICK h \in IF workspace[b] = Null THEN {h \in Handles : owner[h] = Nobody}
                     ELSE {workspace[b]} :
            /\ workspace' = [workspace EXCEPT ![b] = h]
            /\ owner' = IF workspace[b] = Null THEN [owner EXCEPT ![h] = b] ELSE owner
            /\ running' = [running EXCEPT ![b] = @ \cup {h}]
      BY <1>1 DEF Run
    <2>2. pc[b] = "idle" /\ lib[b] # Absent /\ lib' = lib /\ pc' = pc
      BY <1>1, AbsentContents DEF Run, Usable
    <2>3. h \in Handles /\ owner[h] \in {Nobody, b} /\ owner'[h] = b
      BY <2>1 DEF Owned, TInv, TypeOK
    <2>4. \A g \in Handles : g # h => owner'[g] = owner[g]
      BY <2>1 DEF TInv, TypeOK
    <2>5. ASSUME NEW a \in Builders, workspace'[a] # Null
          PROVE  owner'[workspace'[a]] = a /\ lib'[a] # Absent
      <3>1. CASE a = b
        BY <3>1, <2>1, <2>2, <2>3 DEF TInv, TypeOK
      <3>2. CASE a # b
        <4>1. workspace'[a] = workspace[a] /\ workspace[a] \in Handles
          BY <3>2, <2>1, <2>5 DEF TInv, TypeOK
        <4>2. owner[workspace[a]] = a /\ lib[a] # Absent
          BY <4>1, <2>5 DEF Owned
        <4>. QED  BY <4>1, <4>2, <2>2, <2>3, <2>4, <3>2
      <3>. QED  BY <3>1, <3>2
    <2>6. NoLeak'
      <3>. SUFFICES ASSUME NEW g \in Handles, owner'[g] # Nobody
                    PROVE  workspace'[owner'[g]] = g /\ pc'[owner'[g]] # "gone"
        BY DEF NoLeak
      <3>1. CASE g = h
        BY <3>1, <2>1, <2>2, <2>3 DEF TInv, TypeOK
      <3>2. CASE g # h
        <4>1. owner'[g] = owner[g] /\ workspace[owner[g]] = g /\ owner[g] \in Builders
          BY <3>2, <2>4 DEF Owned, NoLeak, TInv, TypeOK
        <4>2. owner[g] # b
          BY <4>1, <3>2, <2>1, <2>3
        <4>. QED  BY <4>1, <4>2, <2>1, <2>2 DEF Owned, NoLeak, TInv, TypeOK
      <3>. QED  BY <3>1, <3>2
    <2>7. LaunchOwnsWorkspace'
      <3>. SUFFICES ASSUME NEW a \in Builders, NEW g \in running'[a]
                    PROVE  owner'[g] = a
        BY DEF LaunchOwnsWorkspace
      <3>1. (a = b /\ g = h) \/ (g \in running[a] /\ g \in Handles /\ owner[g] = a)
        BY <2>1 DEF Owned, LaunchOwnsWorkspace, TInv, TypeOK
      <3>. QED  BY <3>1, <2>3, <2>4
    <2>. QED  BY <2>5, <2>6, <2>7 DEF Owned
  <1>2. ASSUME NEW b \in Builders, Finish(b) PROVE Owned'
    <2>1. /\ \A a \in Builders : running'[a] \subseteq running[a]
          /\ UNCHANGED <<pc, lib, workspace, owner>>
      BY <1>2 DEF Finish, TInv, TypeOK
    <2>. QED  BY <2>1 DEF Owned, NoLeak, LaunchOwnsWorkspace
  <1>3. ASSUME NEW b \in Builders, Cleanup(b) \/ Drop(b) PROVE Owned'
    <2>1. TearDown(b) /\ running' = running
      BY <1>3 DEF Cleanup, Drop
    <2>2. \A a \in Builders : a # b => lib'[a] = lib[a] /\ pc'[a] = pc[a]
      BY <1>3 DEF Cleanup, Drop, Goto, TInv, TypeOK
    <2>3. /\ \A a \in Builders : workspace'[a] # Null =>
                 a # b /\ workspace'[a] = workspace[a] /\ owner'[workspace[a]] = a
          /\ \A h \in Handles : owner'[h] # Nobody =>
                 owner'[h] # b /\ owner'[h] = owner[h] /\ workspace'[owner[h]] = h
          /\ LaunchOwnsWorkspace'
      BY <2>1, TornDown
    <2>4. \A a \in Builders : workspace'[a] # Null =>
              owner'[workspace'[a]] = a /\ lib'[a] # Absent
      BY <2>2, <2>3 DEF Owned
    <2>5. NoLeak'
      BY <2>2, <2>3 DEF Owned, NoLeak, TInv, TypeOK
    <2>. QED  BY <2>3, <2>4, <2>5 DEF Owned
  <1>4. ASSUME NEW p \in Processes, Crash(p) PROVE Owned'
    <2>. DEFINE its == {b \in Builders : ProcessOf[b] = p}
    <2>1. \A b \in Builders : \/ /\ b \in its
                                 /\ workspace'[b] = Null /\ running'[b] = {}
                              \/ /\ b \notin its
                                 /\ workspace'[b] = workspace[b] /\ running'[b] = running[b]
                                 /\ lib'[b] = lib[b] /\ pc'[b] = pc[b]
      BY <1>4 DEF Crash, TInv, TypeOK
    <2>2. \A h \in Handles : owner'[h] = IF owner[h] \in its THEN Nobody ELSE owner[h]
      BY <1>4 DEF Crash
    <2>3. \A b \in Builders : workspace'[b] # Null =>
              owner'[workspace'[b]] = b /\ lib'[b] # Absent
      BY <2>1, <2>2 DEF Owned, TInv, TypeOK
    <2>4. NoLeak'
      BY <2>1, <2>2 DEF Owned, NoLeak, TInv, TypeOK
    <2>5. LaunchOwnsWorkspace'
      BY <2>1, <2>2 DEF Owned, LaunchOwnsWorkspace, TInv, TypeOK
    <2>. QED  BY <2>3, <2>4, <2>5 DEF Owned
  <1>5. ASSUME NEW b \in Builders, LoadLibrary(b) PROVE Owned'
    <2>1. /\ UNCHANGED <<workspace, owner, running>>
          /\ \A a \in Builders : lib[a] # Absent => lib'[a] # Absent
          /\ \A a \in Builders : pc[a] # "gone" => pc'[a] # "gone"
      BY <1>5, AbsentContents
         DEF LoadLibrary, Raise, Goto, device, TInv, TypeOK
    <2>. QED  BY <2>1, OwnedKept
  <1>6. ASSUME NEW b \in Builders,
               \/ Begin(b) \/ Check(b) \/ OpenSource(b) \/ WriteSource(b) \/ ReadSource(b)
               \/ OpenObject(b) \/ WriteObject(b) \/ ToolchainFails(b)
               \/ RemoveFiles(b) \/ RemoveDir(b)
        PROVE  Owned'
    <2>1. /\ UNCHANGED <<workspace, owner, running>>
          /\ lib' = lib
          /\ \E step \in {"check", "load", "open", "write", "compile", "idle", "link",
                          "linking", "rmdir"} : pc' = [pc EXCEPT ![b] = step]
      BY <1>6 DEF Begin, Check, OpenSource, WriteSource, ReadSource, OpenObject, WriteObject,
                  ToolchainFails, RemoveFiles, RemoveDir, Goto, Raise, device
    <2>2. \A a \in Builders : pc[a] # "gone" => pc'[a] # "gone"
      BY <2>1 DEF TInv, TypeOK
    <2>. QED  BY <2>1, <2>2, OwnedKept
  <1>7. CASE UNCHANGED vars
    BY <1>7, OwnedKept DEF vars
  <1>. QED
    BY <1>1, <1>2, <1>3, <1>4, <1>5, <1>6, <1>7 DEF Next

-----------------------------------------------------------------------------
(* A cache that nothing disturbed *)

Codes == {Code(b) : b \in Builders}

\* Of the builders of a code at most one is in build() or cleanup().
Alone(c) == \A a, b \in Builders : Code(a) = c /\ Code(b) = c /\ Busy(a) /\ Busy(b) => a = b

\* A .so that is there was built from a full source, or is being written.
Whole(c) ==
    \A f \in InDir(c) : \/ object[f].state \in {"none", "full"}
                        \/ \E b \in Builders : FileOf(b) = f /\ pc[b] = "linking"

\* No process has loaded a library that was built from an empty source.
NoneHollow(c) == \A p \in Processes, f \in InDir(c) : mapped[p][f].state # "empty"

\* What a builder finds when it goes on.
Underway(b) ==
    /\ pc[b] \in {"check", "open", "write", "compile", "link", "linking"} => Code(b) \in dirs
    /\ pc[b] \in {"write", "linking"} => attached[b]
    /\ pc[b] = "compile" => source[FileOf(b)] = "full"
    /\ pc[b] \in {"link", "linking"} => input[b] = "full"
    /\ pc[b] = "load" => object[FileOf(b)].state = "full"

Calm(c) == /\ Alone(c) /\ Whole(c) /\ NoneHollow(c)
           /\ \A b \in Builders : Code(b) = c => Underway(b)

Undisturbed == \A c \in Codes : c \notin disturbed => Calm(c)

\* No other builder of b's code is at work.
Solitary(b) == \A a \in Builders : a # b /\ Code(a) = Code(b) => ~Busy(a)

\* Every .so of a code is whole.
Sound(c) == \A f \in InDir(c) : object[f].state \in {"none", "full"}

\* A file is in the directory of its code, and in no other.
LEMMA FileInDir ==
    ASSUME NEW b \in Builders, NEW c
    PROVE  /\ FileOf(b) \in InDir(Code(b))
           /\ FileOf(b) \in InDir(c) => c = Code(b)
  BY FileOfBuilder DEF InDir, FileOf

\* A .so that is there and neither half written nor hollow was built in full.
LEMMA FullContents ==
    ASSUME NEW x \in Contents, x # Absent, x.state # "half", x.state # "empty"
    PROVE  x.state = "full"
  BY DEF Contents, Absent, Half, Built

\* ... and what dlopen maps is never half written.
LEMMA LoadedContents ==
    ASSUME NEW x \in Contents \ {Half}, x # Absent, x.state # "empty"
    PROVE  x.state = "full"
  BY DEF Contents, Absent, Built

\* A builder that is at work is the only one of its code ...
LEMMA SolitaryIs ==
    ASSUME NEW b \in Builders, Calm(Code(b)), Busy(b)
    PROVE  Solitary(b)
  BY DEF Calm, Alone, Solitary

\* ... and while it does not link, no .so is half written.
LEMMA SoundIs ==
    ASSUME NEW b \in Builders, Calm(Code(b)), Solitary(b), pc[b] # "linking"
    PROVE  Sound(Code(b))
  <1>. SUFFICES ASSUME NEW f \in InDir(Code(b)), NEW a \in Builders, FileOf(a) = f, pc[a] = "linking"
                PROVE  FALSE
    BY DEF Calm, Whole, Sound
  <1>1. Code(a) = Code(b) /\ Busy(a)
    BY FileInDir DEF Busy
  <1>. QED  BY <1>1 DEF Solitary

\* What one builder alone has to leave.
LEMMA CalmAgain ==
    ASSUME NEW b \in Builders, Solitary(b)', Sound(Code(b))', NoneHollow(Code(b))', Underway(b)'
    PROVE  Calm(Code(b))'
  <1>1. ASSUME NEW a \in Builders, a # b, Code(a) = Code(b)
        PROVE  ~Busy(a)'
    BY <1>1 DEF Solitary
  <1>2. Alone(Code(b))'
    BY <1>1 DEF Alone
  <1>3. ASSUME NEW a \in Builders, Code(a) = Code(b)
        PROVE  Underway(a)'
    <2>1. CASE a = b
      BY <2>1
    <2>2. CASE a # b
      <3>1. pc'[a] \in {"idle", "gone"}
        BY <1>1, <1>3, <2>2 DEF Busy
      <3>. QED  BY <3>1 DEF Underway
    <2>. QED  BY <2>1, <2>2
  <1>. QED  BY <1>2, <1>3 DEF Calm, Whole, Sound

\* A step that leaves a code's builders, files and mappings alone, or ends them.
Untouched(c) ==
    /\ \A a \in Builders : Code(a) = c =>
          \/ pc'[a] = pc[a] /\ attached'[a] = attached[a] /\ input'[a] = input[a]
          \/ {pc[a], pc'[a]} \subseteq {"idle", "gone"}
    /\ \A f \in InDir(c) :
          /\ source'[f] = source[f] /\ object'[f] = object[f]
          /\ \A p \in Processes : mapped'[p][f] \in {mapped[p][f], Absent}
    /\ c \in dirs => c \in dirs'

\* It leaves what was calm calm.
LEMMA CalmKept ==
    ASSUME NEW c, Calm(c), Untouched(c)
    PROVE  Calm(c)'
  <1>1. ASSUME NEW a \in Builders, Code(a) = c
        PROVE  \/ pc'[a] = pc[a] /\ attached'[a] = attached[a] /\ input'[a] = input[a]
               \/ pc[a] \in {"idle", "gone"} /\ pc'[a] \in {"idle", "gone"}
    BY <1>1 DEF Untouched
  <1>2. Alone(c)'
    BY <1>1 DEF Calm, Alone, Busy
  <1>3. Whole(c)'
    <2>. SUFFICES ASSUME NEW f \in InDir(c), NEW b \in Builders, FileOf(b) = f, pc[b] = "linking"
                  PROVE  pc'[b] = "linking"
      BY DEF Calm, Whole, Untouched
    <2>1. Code(b) = c
      BY FileInDir
    <2>. QED  BY <1>1, <2>1
  <1>4. NoneHollow(c)'
    BY AbsentContents DEF Calm, NoneHollow, Untouched
  <1>5. ASSUME NEW b \in Builders, Code(b) = c
        PROVE  Underway(b)'
    <2>1. FileOf(b) \in InDir(c) /\ Underway(b)
      BY <1>5, FileInDir DEF Calm
    <2>2. /\ source'[FileOf(b)] = source[FileOf(b)] /\ object'[FileOf(b)] = object[FileOf(b)]
          /\ Code(b) \in dirs => Code(b) \in dirs'
      BY <1>5, <2>1 DEF Untouched
    <2>3. CASE pc'[b] = pc[b] /\ attached'[b] = attached[b] /\ input'[b] = input[b]
      BY <2>1, <2>2, <2>3 DEF Underway
    <2>4. CASE pc'[b] \in {"idle", "gone"}
      BY <2>4 DEF Underway
    <2>. QED  BY <1>1, <1>5, <2>3, <2>4
  <1>. QED  BY <1>2, <1>3, <1>4, <1>5 DEF Calm

\* Steps of a builder do not touch the other codes.
LEMMA OtherCodes ==
    ASSUME TInv, NEW b \in Builders, NEW c, c # Code(b),
           \A a \in Builders \ {b} : pc'[a] = pc[a] /\ input'[a] = input[a],
           \A a \in Builders : Code(a) # Code(b) => attached'[a] = attached[a],
           \A f \in Files \ InDir(Code(b)) : source'[f] = source[f] /\ object'[f] = object[f],
           \A f \in Files \ InDir(Code(b)), p \in Processes : mapped'[p][f] = mapped[p][f],
           dirs \ {Code(b)} \subseteq dirs'
    PROVE  Untouched(c)
  <1>1. ASSUME NEW f \in InDir(c) PROVE f \in Files \ InDir(Code(b))
    BY <1>1 DEF InDir
  <1>2. ASSUME NEW a \in Builders, Code(a) = c PROVE a \in Builders \ {b} /\ Code(a) # Code(b)
    BY <1>2
  <1>. QED  BY <1>1, <1>2 DEF Untouched

(***************************************************************************)
(* The steps of build() that write no .so: whatever builder b finds        *)
(* afterwards is what it left, as nobody else is there.                    *)
(***************************************************************************)
LEMMA CalmCompiles ==
    ASSUME TInv, Undisturbed, NEW b \in Builders,
           \/ Begin(b) \/ Check(b) \/ OpenSource(b) \/ WriteSource(b) \/ ReadSource(b)
    PROVE  Undisturbed'
  <1>. USE FileOfBuilder DEF TInv, TypeOK
  <1>. SUFFICES ASSUME NEW c \in Codes, c \notin disturbed' PROVE Calm(c)'
    BY DEF Undisturbed, Codes, Code
  <1>1. c \notin disturbed
    BY DEF Begin, Disturb, Check, OpenSource, WriteSource, ReadSource
  <1>2. Calm(c)
    BY <1>1 DEF Undisturbed
  <1>3. UNCHANGED <<object, mapped>> /\ dirs \subseteq dirs'
    BY DEF Begin, Check, OpenSource, WriteSource, ReadSource, files
  <1>4. \A a \in Builders \ {b} : /\ pc'[a] = pc[a] /\ input'[a] = input[a]
                                  /\ attached'[a] = attached[a]
    BY DEF Begin, Check, OpenSource, WriteSource, ReadSource, Goto, Raise, files
  <1>5. CASE c # Code(b)
    <2>1. \A f \in Files \ {FileOf(b)} : source'[f] = source[f]
      BY DEF Begin, Check, OpenSource, WriteSource, ReadSource, files
    <2>2. Untouched(c)
      BY <1>3, <1>4, <1>5, <2>1, FileInDir, OtherCodes
    <2>. QED  BY <1>2, <2>2, CalmKept
  <1>6. CASE c = Code(b)
    <2>1. Solitary(b)
      <3>1. CASE Begin(b)
        BY <1>6, <3>1 DEF Begin, Disturb, Others, Solitary
      <3>2. CASE ~Begin(b)
        BY <1>2, <1>6, <3>2, SolitaryIs DEF Check, OpenSource, WriteSource, ReadSource, Busy
      <3>. QED  BY <3>1, <3>2
    <2>2. Solitary(b)'
      BY <1>4, <2>1 DEF Solitary, Busy
    <2>3. pc[b] # "linking"
      BY DEF Begin, Check, OpenSource, WriteSource, ReadSource
    <2>4. Sound(Code(b)) /\ Sound(Code(b))' /\ NoneHollow(Code(b))'
      BY <1>2, <1>3, <1>6, <2>1, <2>3, SoundIs DEF Sound, Calm, NoneHollow
    <2>5. Underway(b)
      BY <1>2, <1>6 DEF Calm
    <2>6. Underway(b)'
      <3>1. CASE Begin(b)
        <4>1. pc'[b] = "check" /\ Code(b) \in dirs'
          BY <3>1 DEF Begin, Goto
        <4>. QED  BY <4>1 DEF Underway
      <3>2. CASE Check(b)
        <4>1. CASE Exists(b)
          <5>1. pc'[b] = "load"
            BY <3>2, <4>1 DEF Check, Goto
          <5>2. object[FileOf(b)] \in Contents /\ object[FileOf(b)] # Absent
            BY <4>1 DEF Exists
          <5>3. object[FileOf(b)].state \in {"none", "full"}
            BY <2>4, FileInDir DEF Sound
          <5>4. object'[FileOf(b)].state = "full"
            BY <1>3, <5>2, <5>3, FullContents
          <5>. QED  BY <5>1, <5>4 DEF Underway
        <4>2. CASE ~Exists(b)
          <5>1. pc'[b] = "open" /\ pc[b] = "check" /\ dirs' = dirs
            BY <3>2, <4>2 DEF Check, Goto, files
          <5>. QED  BY <2>5, <5>1 DEF Underway
        <4>. QED  BY <4>1, <4>2
      <3>3. CASE OpenSource(b)
        <4>1. CASE Code(b) \in dirs
          <5>1. pc'[b] = "write" /\ attached'[b] /\ dirs' = dirs
            BY <3>3, <4>1 DEF OpenSource, Goto
          <5>. QED  BY <4>1, <5>1 DEF Underway
        <4>2. CASE Code(b) \notin dirs
          <5>1. pc'[b] = "idle"
            BY <3>3, <4>2 DEF OpenSource, Goto, Raise
          <5>. QED  BY <5>1 DEF Underway
        <4>. QED  BY <4>1, <4>2
      <3>4. CASE WriteSource(b)
        <4>1. pc[b] = "write" /\ pc'[b] = "compile" /\ dirs' = dirs
          BY <3>4 DEF WriteSource, Goto
        <4>2. attached[b] /\ Code(b) \in dirs
          BY <2>5, <4>1 DEF Underway
        <4>3. source'[FileOf(b)] = "full"
          BY <3>4, <4>2 DEF WriteSource
        <4>. QED  BY <4>1, <4>2, <4>3 DEF Underway
      <3>5. CASE ReadSource(b)
        <4>1. pc[b] = "compile" /\ dirs' = dirs
          BY <3>5 DEF ReadSource
        <4>2. source[FileOf(b)] = "full" /\ Code(b) \in dirs
          BY <2>5, <4>1 DEF Underway
        <4>3. pc'[b] = "link" /\ input'[b] = "full"
          BY <3>5, <4>2 DEF ReadSource, Goto
        <4>. QED  BY <4>1, <4>2, <4>3 DEF Underway
      <3>. QED  BY <3>1, <3>2, <3>3, <3>4, <3>5
    <2>. QED  BY <1>6, <2>2, <2>4, <2>6, CalmAgain
  <1>. QED  BY <1>5, <1>6

\* dlopen maps what it returns, under the name it was asked for.
LEMMA MappedOnce ==
    ASSUME TInv, NEW b \in Builders, LoadLibrary(b), NEW p \in Processes, NEW f \in Files
    PROVE  mapped'[p][f] = mapped[p][f] \/ (f = FileOf(b) /\ mapped'[p][f] = Opened(b))
  <1>1. ProcessOf[b] \in Processes /\ FileOf(b) \in Files
    BY FileOfBuilder, BuilderAssumption
  <1>2. mapped \in [Processes -> [Files -> Contents \ {Half}]]
    BY DEF TInv, TypeOK
  <1>3. CASE Opened(b).state \in {"none", "half"}
    BY <1>3 DEF LoadLibrary
  <1>4. CASE Opened(b).state \notin {"none", "half"}
    <2>1. mapped' = [mapped EXCEPT ![ProcessOf[b]][FileOf(b)] = Opened(b)]
      BY <1>4 DEF LoadLibrary
    <2>. QED  BY <1>1, <1>2, <2>1
  <1>. QED  BY <1>3, <1>4

(***************************************************************************)
(* The steps at a .so: linking, failing, loading.                          *)
(***************************************************************************)
LEMMA CalmLinks ==
    ASSUME TInv, Undisturbed, NEW b \in Builders,
           OpenObject(b) \/ WriteObject(b) \/ ToolchainFails(b) \/ LoadLibrary(b)
    PROVE  Undisturbed'
  <1>. USE FileOfBuilder, BuilderAssumption DEF TInv, TypeOK
  <1>. SUFFICES ASSUME NEW c \in Codes, c \notin disturbed' PROVE Calm(c)'
    BY DEF Undisturbed, Codes, Code
  <1>1. Calm(c)
    BY DEF Undisturbed, OpenObject, WriteObject, ToolchainFails, LoadLibrary
  <1>2. dirs' = dirs /\ source' = source
    BY DEF OpenObject, WriteObject, ToolchainFails, LoadLibrary, files
  <1>3. \A a \in Builders \ {b} : pc'[a] = pc[a] /\ input'[a] = input[a]
    BY DEF OpenObject, WriteObject, ToolchainFails, LoadLibrary, Goto, Raise, files
  <1>4. /\ \A f \in Files \ {FileOf(b)} : object'[f] = object[f]
        /\ \A a \in Builders : Code(a) # Code(b) => attached'[a] = attached[a]
    <2>1. CASE OpenObject(b)
      <3>1. \A f \in Files \ {FileOf(b)} : object'[f] = object[f]
        BY <2>1 DEF OpenObject
      <3>2. ASSUME NEW a \in Builders, Code(a) # Code(b) PROVE attached'[a] = attached[a]
        <4>1. a # b /\ FileOf(a) # FileOf(b)
          BY <3>2 DEF FileOf
        <4>2. CASE Code(b) \in dirs
          <5>1. attached'[a] = (attached[a] /\ ~(FileOf(a) = FileOf(b) /\ pc[a] = "linking"))
            <6>1. attached' = [x \in Builders |->
                                  IF x = b THEN TRUE
                                  ELSE attached[x] /\ ~(/\ FileOf(x) = FileOf(b)
                                                        /\ pc[x] = "linking")]
              BY <2>1, <4>2 DEF OpenObject
            <6>. QED  BY <4>1, <6>1, Zenon
          <5>2. attached[a] \in BOOLEAN
            OBVIOUS
          <5>. QED  BY <4>1, <5>1, <5>2
        <4>3. CASE Code(b) \notin dirs
          BY <2>1, <4>3 DEF OpenObject
        <4>. QED  BY <4>2, <4>3
      <3>. QED  BY <3>1, <3>2
    <2>2. CASE WriteObject(b)
      BY <2>2 DEF WriteObject
    <2>3. CASE ToolchainFails(b)
      BY <2>3 DEF ToolchainFails
    <2>4. CASE LoadLibrary(b)
      BY <2>4 DEF LoadLibrary, files
    <2>. QED  BY <2>1, <2>2, <2>3, <2>4
  <1>5. CASE c # Code(b)
    <2>1. \A f \in Files \ InDir(Code(b)) :
             /\ object'[f] = object[f]
             /\ \A p \in Processes : mapped'[p][f] = mapped[p][f]
      <3>1. \A f \in Files \ InDir(Code(b)) : f # FileOf(b)
        BY FileInDir
      <3>2. CASE LoadLibrary(b)
        BY <1>4, <3>1, <3>2, MappedOnce
      <3>3. CASE ~LoadLibrary(b)
        <4>1. mapped' = mapped
          BY <3>3 DEF OpenObject, WriteObject, ToolchainFails
        <4>. QED  BY <1>4, <3>1, <4>1
      <3>. QED  BY <3>2, <3>3
    <2>2. Untouched(c)
      BY <1>2, <1>3, <1>4, <1>5, <2>1, OtherCodes
    <2>. QED  BY <1>1, <2>2, CalmKept
  <1>6. CASE c = Code(b)
    <2>1. Solitary(b) /\ Underway(b)
      BY <1>1, <1>6, SolitaryIs DEF OpenObject, WriteObject, ToolchainFails, LoadLibrary, Busy, Calm
    <2>2. Solitary(b)'
      BY <1>3, <2>1 DEF Solitary, Busy
    <2>3. \A f \in InDir(Code(b)) : f # FileOf(b) => object[f].state \in {"none", "full"}
      <3>. SUFFICES ASSUME NEW f \in InDir(Code(b)), f # FileOf(b), NEW a \in Builders,
                           FileOf(a) = f, pc[a] = "linking"
                    PROVE  FALSE
        BY <1>1, <1>6 DEF Calm, Whole
      <3>1. Code(a) = Code(b) /\ Busy(a) /\ a # b
        BY FileInDir DEF Busy
      <3>. QED  BY <2>1, <3>1 DEF Solitary
    <2>4. \A f \in InDir(Code(b)) : f # FileOf(b) => object'[f].state \in {"none", "full"}
      BY <1>4, <2>3 DEF InDir
    <2>5. CASE OpenObject(b)
      <3>1. pc[b] = "link" /\ mapped' = mapped /\ input' = input
        BY <2>5 DEF OpenObject
      <3>2. Code(b) \in dirs /\ input[b] = "full"
        BY <2>1, <3>1 DEF Underway
      <3>3. pc'[b] = "linking" /\ attached'[b]
        BY <2>5, <3>2 DEF OpenObject, Goto
      <3>4. Underway(b)'
        BY <1>2, <3>1, <3>2, <3>3 DEF Underway
      <3>5. Whole(Code(b))'
        BY <2>4, <3>3 DEF Whole
      <3>6. Alone(Code(b))'
        BY <2>2 DEF Alone, Solitary
      <3>7. NoneHollow(Code(b))'
        BY <1>1, <1>6, <3>1 DEF Calm, NoneHollow
      <3>8. ASSUME NEW a \in Builders, Code(a) = Code(b), a # b PROVE Underway(a)'
        <4>1. pc'[a] \in {"idle", "gone"}
          BY <2>2, <3>8 DEF Solitary, Busy
        <4>. QED  BY <4>1 DEF Underway
      <3>. QED  BY <1>6, <3>4, <3>5, <3>6, <3>7, <3>8 DEF Calm
    <2>6. CASE WriteObject(b)
      <3>1. pc[b] = "linking" /\ pc'[b] = "load" /\ mapped' = mapped
        BY <2>6 DEF WriteObject, Goto
      <3>2. attached[b] /\ input[b] = "full"
        BY <2>1, <3>1 DEF Underway
      <3>3. object'[FileOf(b)] = Built(JobOf[b], "full")
        BY <2>6, <3>2 DEF WriteObject
      <3>4. object'[FileOf(b)].state = "full"
        BY <3>3 DEF Built
      <3>5. Sound(Code(b))' /\ Underway(b)'
        BY <2>4, <3>1, <3>4 DEF Sound, Underway
      <3>6. NoneHollow(Code(b))'
        BY <1>1, <1>6, <3>1 DEF Calm, NoneHollow
      <3>. QED  BY <1>6, <2>2, <3>5, <3>6, CalmAgain
    <2>7. CASE ToolchainFails(b)
      <3>1. pc'[b] = "idle" /\ mapped' = mapped
        BY <2>7 DEF ToolchainFails, Raise, Goto
      <3>2. object'[FileOf(b)].state \in {"none", "full"}
        <4>1. CASE pc[b] = "linking"
          BY <2>7, <4>1, AbsentContents DEF ToolchainFails
        <4>2. CASE pc[b] # "linking"
          <5>1. Sound(Code(b)) /\ object' = object
            BY <1>1, <1>6, <2>1, <2>7, <4>2, SoundIs DEF ToolchainFails
          <5>. QED  BY <5>1, FileInDir DEF Sound
        <4>. QED  BY <4>1, <4>2
      <3>3. Sound(Code(b))' /\ Underway(b)'
        BY <2>4, <3>1, <3>2 DEF Sound, Underway
      <3>4. NoneHollow(Code(b))'
        BY <1>1, <1>6, <3>1 DEF Calm, NoneHollow
      <3>. QED  BY <1>6, <2>2, <3>3, <3>4, CalmAgain
    <2>8. CASE LoadLibrary(b)
      <3>1. pc[b] = "load" /\ pc'[b] = "idle" /\ object' = object
        BY <2>8 DEF LoadLibrary, Raise, Goto, files
      <3>2. Sound(Code(b))' /\ Underway(b)'
        <4>1. Sound(Code(b))
          BY <1>1, <1>6, <2>1, <3>1, SoundIs
        <4>. QED  BY <3>1, <4>1 DEF Sound, Underway
      <3>3. NoneHollow(Code(b)) /\ object[FileOf(b)].state = "full" /\ FileOf(b) \in InDir(Code(b))
        BY <1>1, <1>6, <2>1, <3>1, FileInDir DEF Calm, Underway
      <3>4. Opened(b).state # "empty"
        BY <3>3 DEF Opened, NoneHollow
      <3>5. \A p \in Processes, f \in InDir(Code(b)) :
               mapped'[p][f] = mapped[p][f] \/ mapped'[p][f] = Opened(b)
        BY <2>8, MappedOnce DEF InDir
      <3>6. NoneHollow(Code(b))'
        BY <3>3, <3>4, <3>5 DEF NoneHollow
      <3>. QED  BY <1>6, <2>2, <3>2, <3>6, CalmAgain
    <2>. QED  BY <2>5, <2>6, <2>7, <2>8
  <1>. QED  BY <1>5, <1>6

(***************************************************************************)
(* The steps of a builder that is not in build(): cleanup() counts as a    *)
(* builder at work only from its rmtree on.                                *)
(***************************************************************************)
LEMMA CalmIdles ==
    ASSUME TInv, Undisturbed, NEW b \in Builders,
           Run(b) \/ Finish(b) \/ Cleanup(b) \/ Drop(b)
    PROVE  Undisturbed'
  <1>. USE FileOfBuilder DEF TInv, TypeOK
  <1>. SUFFICES ASSUME NEW c \in Codes, c \notin disturbed' PROVE Calm(c)'
    BY DEF Undisturbed, Codes, Code
  <1>1. Calm(c)
    BY DEF Undisturbed, Run, Finish, Cleanup, Drop, Disturb
  <1>2. UNCHANGED <<dirs, source, object, attached, input, mapped>>
    BY DEF Run, Finish, Cleanup, Drop, files
  <1>3. \A a \in Builders \ {b} : pc'[a] = pc[a]
    BY DEF Run, Finish, Cleanup, Drop, Goto
  <1>4. CASE pc'[b] = pc[b] \/ (pc[b] = "idle" /\ pc'[b] = "gone")
    <2>1. ASSUME NEW a \in Builders
          PROVE  pc'[a] = pc[a] \/ (pc[a] = "idle" /\ pc'[a] = "gone")
      BY <1>3, <1>4
    <2>2. Untouched(c)
      BY <1>2, <2>1 DEF Untouched, InDir
    <2>. QED  BY <1>1, <2>2, CalmKept
  <1>5. CASE Cleanup(b) /\ Code(b) \in dirs
    <2>1. pc[b] = "idle" /\ pc'[b] = "remove" /\ Disturb(b)
      BY <1>5 DEF Cleanup, Goto
    <2>2. CASE c # Code(b)
      <3>1. Untouched(c)
        BY <1>2, <1>3, <2>2 DEF Untouched, InDir
      <3>. QED  BY <1>1, <3>1, CalmKept
    <2>3. CASE c = Code(b)
      <3>1. Solitary(b)
        BY <2>1, <2>3 DEF Disturb, Others, Solitary
      <3>2. Solitary(b)'
        BY <1>3, <3>1 DEF Solitary, Busy
      <3>3. Sound(Code(b))' /\ NoneHollow(Code(b))'
        BY <1>1, <1>2, <2>1, <2>3, <3>1, SoundIs DEF Sound, Calm, NoneHollow
      <3>4. Underway(b)'
        BY <2>1 DEF Underway
      <3>. QED  BY <2>3, <3>2, <3>3, <3>4, CalmAgain
    <2>. QED  BY <2>2, <2>3
  <1>6. CASE Run(b) \/ Finish(b) \/ Drop(b) \/ (Cleanup(b) /\ Code(b) \notin dirs)
    BY <1>4, <1>6 DEF Run, Finish, Drop, Cleanup, Goto
  <1>. QED  BY <1>5, <1>6

(***************************************************************************)
(* rmtree: a directory that was there alone for its builder leaves nothing *)
(* behind, and one that others disturbed is forgiven when it is gone.      *)
(***************************************************************************)
LEMMA CalmRemoves ==
    ASSUME TInv, Undisturbed, NEW b \in Builders, RemoveFiles(b) \/ RemoveDir(b)
    PROVE  Undisturbed'
  <1>. USE FileOfBuilder DEF TInv, TypeOK
  <1>. SUFFICES ASSUME NEW c \in Codes, c \notin disturbed' PROVE Calm(c)'
    BY DEF Undisturbed, Codes, Code
  <1>1. UNCHANGED <<input, mapped>>
    BY DEF RemoveFiles, RemoveDir, files
  <1>2. \A a \in Builders \ {b} : pc'[a] = pc[a]
    BY DEF RemoveFiles, RemoveDir, Goto
  <1>3. pc[b] \in {"remove", "rmdir"} /\ pc'[b] \in {"rmdir", "idle"}
    BY DEF RemoveFiles, RemoveDir, Goto
  <1>4. Underway(b)'
    BY <1>3 DEF Underway
  <1>5. CASE c # Code(b)
    <2>1. c \notin disturbed
      BY <1>5 DEF RemoveFiles, RemoveDir
    <2>2. \A a \in Builders : Code(a) # Code(b) => attached'[a] = attached[a]
      <3>1. CASE RemoveFiles(b)
        <4>. SUFFICES ASSUME NEW a \in Builders, Code(a) # Code(b)
                      PROVE  attached'[a] = attached[a]
          OBVIOUS
        <4>1. attached'[a] = (attached[a] /\ Code(a) # Code(b))
          <5>1. attached' = [x \in Builders |-> attached[x] /\ Code(x) # Code(b)]
            BY <3>1 DEF RemoveFiles
          <5>. QED  BY <5>1, Zenon
        <4>2. attached[a] \in BOOLEAN
          OBVIOUS
        <4>. QED  BY <4>1, <4>2
      <3>2. CASE RemoveDir(b)
        BY <3>2 DEF RemoveDir, files
      <3>. QED  BY <3>1, <3>2
    <2>3. \A f \in Files \ InDir(Code(b)) : source'[f] = source[f] /\ object'[f] = object[f]
      BY DEF RemoveFiles, RemoveDir, files
    <2>4. dirs \ {Code(b)} \subseteq dirs'
      BY DEF RemoveFiles, RemoveDir, files
    <2>5. Untouched(c)
      BY <1>1, <1>2, <1>5, <2>2, <2>3, <2>4, OtherCodes
    <2>. QED  BY <2>1, <2>5, CalmKept DEF Undisturbed
  <1>6. CASE c = Code(b)
    <2>1. Solitary(b) /\ NoneHollow(c)
      <3>1. CASE c \in disturbed
        BY <1>6, <3>1 DEF RemoveFiles, RemoveDir, Others, Solitary, NoneHollow
      <3>2. CASE c \notin disturbed
        <4>1. Calm(c) /\ Busy(b)
          BY <1>3, <3>2 DEF Undisturbed, Busy
        <4>. QED  BY <1>6, <4>1, SolitaryIs DEF Calm
      <3>. QED  BY <3>1, <3>2
    <2>2. Solitary(b)'
      BY <1>2, <2>1 DEF Solitary, Busy
    <2>3. Sound(Code(b))'
      <3>1. CASE RemoveFiles(b)
        <4>. SUFFICES ASSUME NEW f \in InDir(Code(b)) PROVE object'[f] = Absent
          BY AbsentContents DEF Sound
        <4>. QED  BY <3>1 DEF RemoveFiles, InDir
      <3>2. CASE RemoveDir(b) /\ c \in disturbed
        <4>1. \A f \in InDir(Code(b)) : object'[f] = Absent
          BY <1>6, <3>2 DEF RemoveDir
        <4>. QED  BY <4>1, AbsentContents DEF Sound
      <3>3. CASE RemoveDir(b) /\ c \notin disturbed
        <4>1. Calm(Code(b)) /\ pc[b] # "linking" /\ object' = object
          BY <1>3, <1>6, <3>3 DEF Undisturbed, RemoveDir
        <4>. QED  BY <2>1, <4>1, SoundIs DEF Sound
      <3>. QED  BY <3>1, <3>2, <3>3
    <2>4. NoneHollow(Code(b))'
      BY <1>1, <1>6, <2>1 DEF NoneHollow
    <2>. QED  BY <1>4, <1>6, <2>2, <2>3, <2>4, CalmAgain
  <1>. QED  BY <1>5, <1>6

(***************************************************************************)
(* The death of a process disturbs the codes it was at work on, and ends   *)
(* its other builders, which were not in build().                          *)
(***************************************************************************)
LEMMA CalmCrashes ==
    ASSUME TInv, Undisturbed, NEW p \in Processes, Crash(p)
    PROVE  Undisturbed'
  <1>. USE FileOfBuilder DEF TInv, TypeOK
  <1>. SUFFICES ASSUME NEW c \in Codes, c \notin disturbed' PROVE Calm(c)'
    BY DEF Undisturbed, Codes, Code
  <1>1. c \notin disturbed
    BY DEF Crash
  <1>2. ASSUME NEW a \in Builders, Code(a) = c
        PROVE  \/ pc'[a] = pc[a] /\ attached'[a] = attached[a] /\ input'[a] = input[a]
               \/ {pc[a], pc'[a]} \subseteq {"idle", "gone"}
    <2>1. input' = input
      BY DEF Crash
    <2>2. CASE ProcessOf[a] = p
      <3>1. ~Busy(a)
        BY <1>2, <2>2 DEF Crash
      <3>2. pc'[a] = "gone"
        BY <2>2 DEF Crash
      <3>. QED  BY <3>1, <3>2 DEF Busy
    <2>3. CASE ProcessOf[a] # p
      <3>1. pc'[a] = pc[a]
        BY <2>3 DEF Crash
      <3>2. attached'[a] = (attached[a] /\ a \notin {b \in Builders : ProcessOf[b] = p})
        <4>1. attached' = [x \in Builders |->
                              attached[x] /\ x \notin {b \in Builders : ProcessOf[b] = p}]
          BY DEF Crash
        <4>. QED  BY <4>1, Zenon
      <3>3. attached[a] \in BOOLEAN
        OBVIOUS
      <3>. QED  BY <2>1, <2>3, <3>1, <3>2, <3>3
    <2>. QED  BY <2>2, <2>3
  <1>3. ASSUME NEW f \in InDir(c), NEW q \in Processes
        PROVE  mapped'[q][f] \in {mapped[q][f], Absent}
    BY <1>3 DEF Crash, InDir
  <1>4. UNCHANGED <<dirs, source, object>>
    BY DEF Crash
  <1>5. Untouched(c)
    BY <1>2, <1>3, <1>4 DEF Untouched
  <1>. QED  BY <1>1, <1>5, CalmKept DEF Undisturbed

\* Every step leaves every code that is not disturbed calm.
LEMMA CalmStep ==
    ASSUME TInv, Undisturbed, [Next]_vars
    PROVE  Undisturbed'
  <1>1. CASE UNCHANGED vars
    <2>. SUFFICES ASSUME NEW c \in Codes, c \notin disturbed' PROVE Calm(c)'
      BY DEF Undisturbed, Codes, Code
    <2>1. Calm(c) /\ Untouched(c)
      BY <1>1 DEF vars, files, Undisturbed, Untouched
    <2>. QED  BY <2>1, CalmKept
  <1>2. ASSUME NEW b \in Builders,
               \/ Begin(b) \/ Check(b) \/ OpenSource(b) \/ WriteSource(b) \/ ReadSource(b)
        PROVE  Undisturbed'
    BY <1>2, CalmCompiles
  <1>3. ASSUME NEW b \in Builders,
               OpenObject(b) \/ WriteObject(b) \/ ToolchainFails(b) \/ LoadLibrary(b)
        PROVE  Undisturbed'
    BY <1>3, CalmLinks
  <1>4. ASSUME NEW b \in Builders, Run(b) \/ Finish(b) \/ Cleanup(b) \/ Drop(b)
        PROVE  Undisturbed'
    BY <1>4, CalmIdles
  <1>5. ASSUME NEW b \in Builders, RemoveFiles(b) \/ RemoveDir(b)
        PROVE  Undisturbed'
    BY <1>5, CalmRemoves
  <1>6. ASSUME NEW p \in Processes, Crash(p)
        PROVE  Undisturbed'
    BY <1>6, CalmCrashes
  <1>. QED  BY <1>1, <1>2, <1>3, <1>4, <1>5, <1>6 DEF Next

(***************************************************************************)
(* A builder of a calm code that gives up on files does not exist: what it *)
(* needs is there, whole and from the full source.                         *)
(***************************************************************************)
LEMMA CalmSucceeds ==
    ASSUME TInv, NEW b \in Builders, Calm(Code(b)), [Next]_vars, failure[b] = "none"
    PROVE  failure'[b] # "files"
  <1>. USE FileOfBuilder, BuilderAssumption DEF TInv, TypeOK
  <1>1. Underway(b) /\ NoneHollow(Code(b)) /\ FileOf(b) \in InDir(Code(b))
    BY FileInDir DEF Calm
  <1>2. CASE UNCHANGED vars
    BY <1>2 DEF vars
  <1>3. ASSUME NEW a \in Builders,
               \/ Begin(a) \/ Check(a) \/ WriteSource(a) \/ WriteObject(a) \/ ToolchainFails(a)
               \/ Run(a) \/ Finish(a) \/ Cleanup(a) \/ RemoveFiles(a) \/ RemoveDir(a) \/ Drop(a)
        PROVE  failure'[b] # "files"
    <2>1. \/ UNCHANGED failure
          \/ failure' = [failure EXCEPT ![a] = "none"]
          \/ failure' = [failure EXCEPT ![a] = "toolchain"]
      BY <1>3 DEF Begin, Check, WriteSource, WriteObject, ToolchainFails, Run, Finish, Cleanup,
                  RemoveFiles, RemoveDir, Drop, Raise
    <2>. QED  BY <2>1
  <1>4. ASSUME NEW a \in Builders, a # b,
               OpenSource(a) \/ ReadSource(a) \/ OpenObject(a) \/ LoadLibrary(a)
        PROVE  failure'[b] # "files"
    BY <1>4 DEF OpenSource, ReadSource, OpenObject, LoadLibrary, Raise
  <1>5. CASE OpenSource(b)
    BY <1>1, <1>5 DEF OpenSource, Underway
  <1>6. CASE ReadSource(b)
    BY <1>1, <1>6 DEF ReadSource, Underway
  <1>7. CASE OpenObject(b)
    BY <1>1, <1>7 DEF OpenObject, Underway
  <1>8. CASE LoadLibrary(b)
    <2>1. object[FileOf(b)].state = "full"
      BY <1>1, <1>8 DEF LoadLibrary, Underway
    <2>2. Opened(b).state = "full"
      <3>1. CASE mapped[ProcessOf[b]][FileOf(b)] = Absent
        BY <2>1, <3>1 DEF Opened
      <3>2. CASE mapped[ProcessOf[b]][FileOf(b)] # Absent
        <4>1. mapped[ProcessOf[b]][FileOf(b)] \in Contents \ {Half}
          OBVIOUS
        <4>2. mapped[ProcessOf[b]][FileOf(b)].state # "empty"
          BY <1>1 DEF NoneHollow
        <4>3. mapped[ProcessOf[b]][FileOf(b)].state = "full"
          BY <3>2, <4>1, <4>2, LoadedContents
        <4>. QED  BY <3>2, <4>3 DEF Opened
      <3>. QED  BY <3>1, <3>2
    <2>3. failure' = [failure EXCEPT ![b] = "none"]
      BY <1>8, <2>2 DEF LoadLibrary, Raise
    <2>. QED  BY <2>3
  <1>9. ASSUME NEW p \in Processes, Crash(p) PROVE failure'[b] # "files"
    BY <1>9 DEF Crash
  <1>. QED  BY <1>2, <1>3, <1>4, <1>5, <1>6, <1>7, <1>8, <1>9 DEF Next

-----------------------------------------------------------------------------

(***************************************************************************)
(* The inductive invariant and what follows from it.                       *)
(***************************************************************************)
IInv == TInv /\ Faithful /\ Owned

\* The inductive invariant holds of every reachable state.
THEOREM Invariance == Spec => []IInv
  <1>1. Init => IInv
    <2>. SUFFICES ASSUME Init PROVE IInv
      OBVIOUS
    <2>1. TInv
      BY InitTyped
    <2>2. Faithful
      BY AbsentContents, FileOfBuilder DEF Init, Faithful, OfFile
    <2>3. Owned
      BY DEF Init, Owned, NoLeak, LaunchOwnsWorkspace
    <2>. QED  BY <2>1, <2>2, <2>3 DEF IInv
  <1>2. IInv /\ [Next]_vars => IInv'
    BY TypedStep, FaithfulStep, OwnedStep DEF IInv
  <1>. QED  BY <1>1, <1>2, PTL DEF Spec

\* The variables keep their types, whatever builders and processes do.
THEOREM TypeCorrect == Spec => []TypeOK
  BY Invariance, PTL DEF IInv, TInv

\* A library a builder can run was built from its own code and defines.
THEOREM LoadedIsRight == Spec => []LoadedRight
  <1>1. IInv => LoadedRight
    <2>. SUFFICES ASSUME IInv, NEW b \in Builders, Usable(b) PROVE lib[b].job = JobOf[b]
      BY DEF LoadedRight
    <2>1. PICK a \in Builders : FileOf(a) = FileOf(b) /\ lib[b].job = JobOf[a]
      BY DEF IInv, Faithful, OfFile, Usable
    <2>2. JobOf[a].code = JobOf[b].code /\ JobOf[a].defs = JobOf[b].defs
      BY <2>1 DEF FileOf, Code
    <2>3. JobOf[a] = JobOf[b]
      BY <2>2, BuilderAssumption
    <2>. QED  BY <2>1, <2>3
  <1>. QED  BY <1>1, Invariance, PTL

\* A launch in flight uses memory that is allocated to its builder.
THEOREM LaunchesOwn == Spec => []LaunchOwnsWorkspace
  BY Invariance, PTL DEF IInv, Owned

\* Device memory belongs to a living builder that knows of it.
THEOREM NothingLeaks == Spec => []NoLeak
  BY Invariance, PTL DEF IInv, Owned

\* A code that nothing disturbed stays as one builder alone would leave it.
THEOREM CacheStaysCalm == Spec => []Undisturbed
  <1>1. Init => Undisturbed
    <2>. SUFFICES ASSUME Init, NEW c \in Codes PROVE Calm(c)
      BY DEF Undisturbed
    <2>1. \A b \in Builders : pc[b] = "idle" /\ ~Busy(b)
      BY DEF Init, Busy
    <2>2. Alone(c) /\ \A b \in Builders : Underway(b)
      BY <2>1 DEF Alone, Underway
    <2>3. Whole(c) /\ NoneHollow(c)
      BY AbsentContents DEF Init, Whole, NoneHollow, InDir
    <2>. QED  BY <2>2, <2>3 DEF Calm
  <1>2. TInv /\ Undisturbed /\ [Next]_vars => Undisturbed'
    BY CalmStep
  <1>3. Spec => []TInv
    BY Invariance, PTL DEF IInv
  <1>. QED  BY <1>1, <1>2, <1>3, PTL DEF Spec

(***************************************************************************)
(* build() fails on files only where builders of one code met or a process *)
(* died, since the directory was last removed.                             *)
(***************************************************************************)
THEOREM CachePoisonsNothing == Spec => FailsOnFilesOnlyIfDisturbed
  <1>. DEFINE Allowed == \A b \in Builders :
                  failure[b] = "none" /\ failure'[b] = "files" => Code(b) \in disturbed
  <1>1. TInv /\ Undisturbed /\ [Next]_vars => [Allowed]_vars
    <2>. SUFFICES ASSUME TInv, Undisturbed, [Next]_vars, NEW b \in Builders,
                         failure[b] = "none", failure'[b] = "files"
                  PROVE  Code(b) \in disturbed
      OBVIOUS
    <2>1. Code(b) \in Codes
      BY DEF Codes
    <2>. QED  BY <2>1, CalmSucceeds DEF Undisturbed
  <1>2. Spec => []TInv
    BY Invariance, PTL DEF IInv
  <1>. QED  BY <1>1, <1>2, CacheStaysCalm, PTL DEF Spec, FailsOnFilesOnlyIfDisturbed
=============================================================================
