------------------------------- MODULE Builder -------------------------------
(***************************************************************************)
(* The life of EinsumBuilder objects that share one build directory:       *)
(* compile, load_library, run, cleanup and __del__ of builder.py.          *)
(*                                                                         *)
(* A builder's generated code and its EINSUM_EXTRA_DEFINES are its job; a  *)
(* job names a file, <code hash>/einsum_<code hash><tag>.so, in a          *)
(* directory named by the code alone.  Builders of one process share what  *)
(* dlopen has mapped, builders of all processes share the files.  Every    *)
(* builder is used by one thread at a time.                                *)
(***************************************************************************)
EXTENDS Naturals, FiniteSets

CONSTANTS Builders, Processes,
          ProcessOf,   \* [Builders -> Processes]
          JobOf,       \* [Builders -> [code, defs]]
          Handles,     \* device addresses that aclrtMalloc may return
          MaxBuilds,   \* [Builders -> Nat], calls of build()
          MaxCrashes   \* processes killed

Nobody == "nobody"
Null == "null"

ASSUME BuilderAssumption ==
    /\ ProcessOf \in [Builders -> Processes]
    /\ \A b \in Builders : JobOf[b] = [code |-> JobOf[b].code, defs |-> JobOf[b].defs]
    /\ Nobody \notin Builders /\ Null \notin Handles
    /\ MaxBuilds \in [Builders -> Nat] /\ MaxCrashes \in Nat

VARIABLES pc,         \* where a builder is in build() or cleanup()
          builds,     \* how often build() was called on it
          failure,    \* what made its last build() raise
          lib,        \* self.lib
          workspace,  \* self._workspace
          dirs,       \* the target directories that exist
          source,     \* the .cpp files
          object,     \* the .so files
          attached,   \* is the file it has open still the one of that name?
          input,      \* what its compiler read
          mapped,     \* what dlopen has mapped in a process, by name
          owner,      \* whose a device address is
          running,    \* the workspaces its launches in flight use
          disturbed,  \* codes at which builders met, or a process died
          crashes

vars == <<pc, builds, failure, lib, workspace, dirs, source, object, attached, input,
          mapped, owner, running, disturbed, crashes>>

files == <<dirs, source, object, attached, input>>
device == <<workspace, owner, running>>

NoJob == [code |-> "none", defs |-> "none"]

\* A .so, or a mapping of one: missing, half written, or built for a job from
\* an empty or from the full source.
Absent == [state |-> "none", job |-> NoJob]
Half == [state |-> "half", job |-> NoJob]
Built(job, text) == [state |-> text, job |-> job]

Code(b) == JobOf[b].code

FileOf_NoTag(b) == <<Code(b), "none">>
FileOf(b) == <<Code(b), JobOf[b].defs>>

Files == {FileOf(b) : b \in Builders}

InDir(code) == {f \in Files : f[1] = code}

Busy(b) == pc[b] \notin {"idle", "gone"}

Others(b) == {a \in Builders \ {b} : Code(a) = Code(b) /\ Busy(a)}

Init ==
    /\ pc = [b \in Builders |-> "idle"]
    /\ builds = [b \in Builders |-> 0]
    /\ failure = [b \in Builders |-> "none"]
    /\ lib = [b \in Builders |-> Absent]
    /\ workspace = [b \in Builders |-> Null]
    /\ dirs = {}
    /\ source = [f \in Files |-> "none"]
    /\ object = [f \in Files |-> Absent]
    /\ attached = [b \in Builders |-> FALSE]
    /\ input = [b \in Builders |-> "none"]
    /\ mapped = [p \in Processes |-> [f \in Files |-> Absent]]
    /\ owner = [h \in Handles |-> Nobody]
    /\ running = [b \in Builders |-> {}]
    /\ disturbed = {}
    /\ crashes = 0

-----------------------------------------------------------------------------
(* compile() *)

Goto(b, step) == pc' = [pc EXCEPT ![b] = step]

Raise(b, what) == Goto(b, "idle") /\ failure' = [failure EXCEPT ![b] = what]

Disturb(b) == disturbed' = IF Others(b) = {} THEN disturbed ELSE disturbed \cup {Code(b)}

\* build() has parsed and generated, and makes the directory.
Begin(b) ==
    /\ pc[b] = "idle"
    /\ builds[b] < MaxBuilds[b]
    /\ builds' = [builds EXCEPT ![b] = @ + 1]
    /\ failure' = [failure EXCEPT ![b] = "none"]
    /\ dirs' = dirs \cup {Code(b)}
    /\ Disturb(b)
    /\ Goto(b, "check")
    /\ UNCHANGED <<lib, device, source, object, attached, input, mapped, crashes>>

Exists_Source(b) == source[FileOf(b)] # "none"
Exists(b) == object[FileOf(b)] # Absent

Check(b) ==
    /\ pc[b] = "check"
    /\ Goto(b, IF Exists(b) THEN "load" ELSE "open")
    /\ UNCHANGED <<builds, failure, lib, device, files, mapped, disturbed, crashes>>

\* open(cpp, 'w') truncates what is there.
OpenSource(b) ==
    /\ pc[b] = "open"
    /\ IF Code(b) \in dirs
       THEN /\ source' = [source EXCEPT ![FileOf(b)] = "empty"]
            /\ attached' = [attached EXCEPT ![b] = TRUE]
            /\ Goto(b, "write") /\ UNCHANGED failure
       ELSE Raise(b, "files") /\ UNCHANGED <<source, attached>>
    /\ UNCHANGED <<builds, lib, device, dirs, object, input, mapped, disturbed, crashes>>

WriteSource(b) ==
    /\ pc[b] = "write"
    /\ source' = [source EXCEPT ![FileOf(b)] = IF attached[b] THEN "full" ELSE @]
    /\ Goto(b, "compile")
    /\ UNCHANGED <<builds, failure, lib, device, dirs, object, attached, input, mapped,
                   disturbed, crashes>>

\* The compiler reads the source ...
ReadSource(b) ==
    /\ pc[b] = "compile"
    /\ IF source[FileOf(b)] # "none"
       THEN /\ input' = [input EXCEPT ![b] = source[FileOf(b)]]
            /\ Goto(b, "link") /\ UNCHANGED failure
       ELSE Raise(b, "files") /\ UNCHANGED input
    /\ UNCHANGED <<builds, lib, device, dirs, source, object, attached, mapped, disturbed,
                   crashes>>

\* ... the linker unlinks the output of that name, if any, and writes anew ...
OpenObject(b) ==
    /\ pc[b] = "link"
    /\ IF Code(b) \in dirs
       THEN /\ object' = [object EXCEPT ![FileOf(b)] = Half]
            /\ attached' = [a \in Builders |->
                                IF a = b THEN TRUE
                                ELSE attached[a] /\ ~(/\ FileOf(a) = FileOf(b)
                                                      /\ pc[a] = "linking")]
            /\ Goto(b, "linking") /\ UNCHANGED failure
       ELSE Raise(b, "files") /\ UNCHANGED <<object, attached>>
    /\ UNCHANGED <<builds, lib, device, dirs, source, input, mapped, disturbed, crashes>>

WriteObject(b) ==
    /\ pc[b] = "linking"
    /\ object' = [object EXCEPT ![FileOf(b)] =
                      IF attached[b] THEN Built(JobOf[b], input[b]) ELSE @]
    /\ Goto(b, "load")
    /\ UNCHANGED <<builds, failure, lib, device, dirs, source, attached, input, mapped,
                   disturbed, crashes>>

\* ... or fails, or was never found, or PTO_LIB_PATH is not set: the .cpp
\* stays, a half-written .so is removed.
ToolchainFails(b) ==
    /\ pc[b] \in {"compile", "linking"}
    /\ object' = IF pc[b] = "linking" THEN [object EXCEPT ![FileOf(b)] = Absent] ELSE object
    /\ Raise(b, "toolchain")
    /\ UNCHANGED <<builds, lib, device, dirs, source, attached, input, mapped, disturbed,
                   crashes>>

-----------------------------------------------------------------------------
(* load_library() and run() *)

\* dlopen returns what is mapped under that name already, whatever the file
\* holds now: ctypes never closes a library.
Opened(b) ==
    IF mapped[ProcessOf[b]][FileOf(b)] # Absent THEN mapped[ProcessOf[b]][FileOf(b)]
    ELSE object[FileOf(b)]

\* Without a library OSError, without its functions AttributeError.
LoadLibrary(b) ==
    /\ pc[b] = "load"
    /\ IF Opened(b).state \in {"none", "half"}
       THEN Raise(b, "files") /\ UNCHANGED <<lib, mapped>>
       ELSE /\ lib' = [lib EXCEPT ![b] = Opened(b)]
            /\ mapped' = [mapped EXCEPT ![ProcessOf[b]][FileOf(b)] = Opened(b)]
            /\ Raise(b, IF Opened(b).state = "full" THEN "none" ELSE "files")
    /\ UNCHANGED <<builds, device, files, disturbed, crashes>>

Usable(b) == lib[b].state = "full"

\* The first call allocates the workspace, every call launches on it.
Run(b) ==
    /\ pc[b] = "idle"
    /\ Usable(b)
    /\ \E h \in IF workspace[b] = Null THEN {h \in Handles : owner[h] = Nobody}
                ELSE {workspace[b]} :
          /\ workspace' = [workspace EXCEPT ![b] = h]
          /\ owner' = IF workspace[b] = Null THEN [owner EXCEPT ![h] = b] ELSE owner
          /\ running' = [running EXCEPT ![b] = @ \cup {h}]
    /\ UNCHANGED <<pc, builds, failure, lib, files, mapped, disturbed, crashes>>

\* The device finishes the launches that use h.
Finish(b) ==
    /\ \E h \in running[b] : running' = [running EXCEPT ![b] = @ \ {h}]
    /\ UNCHANGED <<pc, builds, failure, lib, workspace, files, mapped, owner, disturbed,
                   crashes>>

-----------------------------------------------------------------------------
(* cleanup(), __del__ and death *)

\* aclrtFree waits for the launches in flight.
TearDown_KeepsHandle(b) ==
    IF workspace[b] # Null /\ lib[b] # Absent
    THEN /\ workspace[b] \notin running[b]
         /\ owner' = [owner EXCEPT ![workspace[b]] = Nobody]
         /\ UNCHANGED workspace
    ELSE UNCHANGED <<owner, workspace>>
TearDown(b) ==
    IF workspace[b] # Null /\ lib[b] # Absent
    THEN /\ workspace[b] \notin running[b]
         /\ owner' = [owner EXCEPT ![workspace[b]] = Nobody]
         /\ workspace' = [workspace EXCEPT ![b] = Null]
    ELSE UNCHANGED <<owner, workspace>>

Cleanup(b) ==
    /\ pc[b] = "idle"
    /\ builds[b] > 0
    /\ TearDown(b)
    /\ lib' = [lib EXCEPT ![b] = Absent]
    /\ Goto(b, IF Code(b) \in dirs THEN "remove" ELSE "idle")
    /\ IF Code(b) \in dirs THEN Disturb(b) ELSE UNCHANGED disturbed
    /\ UNCHANGED <<builds, failure, running, files, mapped, crashes>>

\* rmtree unlinks what it finds in the directory ...
RemoveFiles(b) ==
    /\ pc[b] = "remove"
    /\ source' = [f \in Files |-> IF f \in InDir(Code(b)) THEN "none" ELSE source[f]]
    /\ object' = [f \in Files |-> IF f \in InDir(Code(b)) THEN Absent ELSE object[f]]
    /\ attached' = [a \in Builders |-> attached[a] /\ Code(a) # Code(b)]
    /\ Goto(b, "rmdir")
    /\ UNCHANGED <<builds, failure, lib, device, dirs, input, mapped, disturbed, crashes>>

\* ... and then the directory, if nothing was created in it meanwhile.
RemoveDir(b) ==
    LET empty == \A f \in InDir(Code(b)) : source[f] = "none" /\ object[f] = Absent
        hollow == \E p \in Processes, f \in InDir(Code(b)) : mapped[p][f].state = "empty"
    IN  /\ pc[b] = "rmdir"
        /\ dirs' = IF empty THEN dirs \ {Code(b)} ELSE dirs
        /\ disturbed' = IF empty /\ Others(b) = {} /\ ~hollow
                        THEN disturbed \ {Code(b)} ELSE disturbed
        /\ Goto(b, "idle")
        /\ UNCHANGED <<builds, failure, lib, device, source, object, attached, input, mapped,
                       crashes>>

Drop_NoDel(b) ==
    /\ pc[b] = "idle"
    /\ Goto(b, "gone")
    /\ UNCHANGED <<builds, failure, lib, device, files, mapped, disturbed, crashes>>

\* The last reference goes: __del__ frees the workspace and leaves the files.
Drop(b) ==
    /\ pc[b] = "idle"
    /\ TearDown(b)
    /\ Goto(b, "gone")
    /\ UNCHANGED <<builds, failure, lib, running, files, mapped, disturbed, crashes>>

\* A process is killed, with its compilers: files stay as they are, device
\* memory and mappings go.
Crash(p) ==
    LET its == {b \in Builders : ProcessOf[b] = p}
    IN  /\ crashes < MaxCrashes
        /\ \E b \in its : pc[b] # "gone"
        /\ crashes' = crashes + 1
        /\ pc' = [b \in Builders |-> IF b \in its THEN "gone" ELSE pc[b]]
        /\ lib' = [b \in Builders |-> IF b \in its THEN Absent ELSE lib[b]]
        /\ workspace' = [b \in Builders |-> IF b \in its THEN Null ELSE workspace[b]]
        /\ running' = [b \in Builders |-> IF b \in its THEN {} ELSE running[b]]
        /\ owner' = [h \in Handles |-> IF owner[h] \in its THEN Nobody ELSE owner[h]]
        /\ mapped' = [mapped EXCEPT ![p] = [f \in Files |-> Absent]]
        /\ attached' = [b \in Builders |-> attached[b] /\ b \notin its]
        /\ disturbed' = disturbed \cup {Code(b) : b \in {b \in its : Busy(b)}}
        /\ UNCHANGED <<builds, failure, dirs, source, object, input>>

Next ==
    \/ \E b \in Builders :
          \/ Begin(b) \/ Check(b) \/ OpenSource(b) \/ WriteSource(b) \/ ReadSource(b)
          \/ OpenObject(b) \/ WriteObject(b) \/ ToolchainFails(b) \/ LoadLibrary(b)
          \/ Run(b) \/ Finish(b) \/ Cleanup(b) \/ RemoveFiles(b) \/ RemoveDir(b) \/ Drop(b)
    \/ \E p \in Processes : Crash(p)

Spec == Init /\ [][Next]_vars

-----------------------------------------------------------------------------
(* Properties *)

Contents == {Absent, Half} \cup {Built(JobOf[b], t) : b \in Builders, t \in {"empty", "full"}}

\* The types of the variables.  BuilderProofs proves them (TypeCorrect) and
\* builds its invariant on them.
TypeOK ==
    /\ pc \in [Builders -> {"idle", "check", "open", "write", "compile", "link", "linking",
                            "load", "remove", "rmdir", "gone"}]
    /\ builds \in [Builders -> Nat] /\ \A b \in Builders : builds[b] <= MaxBuilds[b]
    /\ failure \in [Builders -> {"none", "files", "toolchain"}]
    /\ lib \in [Builders -> Contents \ {Half}]
    /\ workspace \in [Builders -> Handles \cup {Null}]
    /\ dirs \subseteq {Code(b) : b \in Builders}
    /\ source \in [Files -> {"none", "empty", "full"}]
    /\ object \in [Files -> Contents]
    /\ attached \in [Builders -> BOOLEAN]
    /\ input \in [Builders -> {"none", "empty", "full"}]
    /\ mapped \in [Processes -> [Files -> Contents \ {Half}]]
    /\ owner \in [Handles -> Builders \cup {Nobody}]
    /\ running \in [Builders -> SUBSET Handles]
    /\ disturbed \subseteq {Code(b) : b \in Builders}
    /\ crashes \in 0..MaxCrashes

(***************************************************************************)
(* A library a builder can run is the one compiled from the builder's own  *)
(* code with its own defines, however many builders wrote, removed and     *)
(* rewrote files of the same directory meanwhile, and although dlopen      *)
(* answers from names it has seen before.                                  *)
(***************************************************************************)
LoadedRight == \A b \in Builders : Usable(b) => lib[b].job = JobOf[b]

(***************************************************************************)
(* A launch in flight uses a workspace that is allocated to its builder:   *)
(* neither cleanup() followed by another build() nor address reuse makes   *)
(* run() launch on memory that was freed.                                  *)
(***************************************************************************)
LaunchOwnsWorkspace == \A b \in Builders : \A h \in running[b] : owner[h] = b

(***************************************************************************)
(* Workspaces are not leaked: device memory belongs to a builder that      *)
(* knows of it, and none is left when the builder is collected.            *)
(***************************************************************************)
NoLeak ==
    \A h \in Handles : owner[h] # Nobody =>
        workspace[owner[h]] = h /\ pc[owner[h]] # "gone"

(***************************************************************************)
(* The cache never poisons itself: build() fails on a missing, half-written*)
(* or hollow file only if builders of the same code were at work at the    *)
(* same time, or a process died at it, since the directory was last        *)
(* removed.  In particular a compiler that failed is run again next time.  *)
(***************************************************************************)
FailsOnFilesOnlyIfDisturbed ==
    [][\A b \in Builders :
          failure[b] = "none" /\ failure'[b] = "files" => Code(b) \in disturbed]_vars
=============================================================================
