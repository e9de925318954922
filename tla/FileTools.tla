------------------------------- MODULE FileTools ------------------------------
(***************************************************************************)
(* write_file, edit and str_replace_file (src/internal/core/tools.go) on   *)
(* one file of the sandbox.  Both end in atomicWriteFileRoot: a temporary  *)
(* file beside the target is filled, made durable, given the target's mode *)
(* and renamed over it.  An edit reads the file first.  Every operation on *)
(* a path goes through the sandbox root, and fails once that is closed.    *)
(***************************************************************************)
EXTENDS Naturals

CONSTANTS
    Ops,          \* the calls; each is made at most once
    OldModes      \* modes the target may have before anything runs

ASSUME FileToolsAssumption == "0600" \notin OldModes /\ "none" \notin OldModes

VARIABLES
    root,    \* the sandbox root: "none", "open" or "closed"
    target,  \* the file: its mode ("none": no such file), and whether its
             \* text is complete
    first,   \* the target at the start
    op,      \* each call: its step, and the mode it found
    temp,    \* the temporary file of each call, like target
    unseen   \* history: the calls whose Stat failed although there was a file

fileVars == <<target, first, op, temp, unseen>>

-----------------------------------------------------------------------------

File(mode, whole) == [mode |-> mode, whole |-> whole]
NoFile == File("none", TRUE)
Call(step, mode) == [at |-> step, mode |-> mode]
Idle == Call("idle", "none")

(* The steps of a call, in order; an edit begins by reading.  "write" is   *)
(* the whole of filling the temporary file: write, fsync and close.        *)
Order == <<"read", "stat", "create", "write", "chmod", "rename", "done">>

\* Mutant: the file is renamed into place before it is filled.
AfterUnfilled(step) ==
    CASE step = "create" -> "chmod" [] step = "rename" -> "write"
      [] step = "write" -> "done"
      [] OTHER -> Order[1 + CHOOSE i \in 1..6 : Order[i] = step]

After(step) == Order[1 + CHOOSE i \in 1..6 : Order[i] = step]

Steps == {Order[i] : i \in 1..6}
Busy(o) == op[o].at \in Steps
Finished(o) == op[o].at \in {"done", "failed"}
At(o, step) == op[o].at = step

GoesOn(o, mode) ==
    op' = [op EXCEPT ![o] = IF At(o, "rename") THEN Call("done", "none")
                            ELSE Call(After(@.at), mode)]

FileInit ==
    /\ root = "none"
    /\ first \in {NoFile} \cup {File(m, TRUE) : m \in OldModes}
    /\ target = first
    /\ op = [o \in Ops |-> Idle]
    /\ temp = [o \in Ops |-> NoFile]
    /\ unseen = {}

(* A call whose path does not pass the checks, or that is cancelled.       *)
Refuse(o) == op' = [op EXCEPT ![o] = Call("failed", "none")]

(* The call begins: an edit reads the file, write_file looks at its mode.  *)
Begin(o) ==
    /\ op[o] = Idle
    /\ \/ \E step \in {"read", "stat"} :
             op' = [op EXCEPT ![o] = Call(step, "none")]
       \/ Refuse(o)
    /\ UNCHANGED <<target, first, temp, unseen>>

(* replaceInFileRoot reads the whole file and computes the new text.       *)
Read(o) ==
    /\ At(o, "read") /\ root = "open" /\ target # NoFile
    /\ GoesOn(o, "none")
    /\ UNCHANGED <<target, first, temp, unseen>>

(* The mode of the target, or 0600 when Stat fails: there is no file, the  *)
(* root is closed, or the file cannot be looked at, for whatever reason.   *)
FoundModes ==
    {"0600"} \cup (IF root = "open" /\ target # NoFile THEN {target.mode}
                  ELSE {})

Stat(o) ==
    /\ At(o, "stat")
    /\ \E mode \in FoundModes :
          /\ GoesOn(o, mode)
          /\ unseen' = IF target = NoFile \/ mode = target.mode THEN unseen
                       ELSE unseen \cup {o}
    /\ UNCHANGED <<target, first, temp>>

Create(o) ==
    /\ At(o, "create") /\ root = "open"
    /\ temp' = [temp EXCEPT ![o] = File("0600", FALSE)]
    /\ GoesOn(o, op[o].mode)
    /\ UNCHANGED <<target, first, unseen>>

(* The open file does not need the root.                                   *)
Write(o) ==
    /\ At(o, "write")
    /\ temp' = [temp EXCEPT ![o].whole = TRUE]
    /\ GoesOn(o, op[o].mode)
    /\ UNCHANGED <<target, first, unseen>>

Chmod(o) ==
    /\ At(o, "chmod") /\ root = "open"
    /\ temp' = [temp EXCEPT ![o].mode = op[o].mode]
    /\ GoesOn(o, op[o].mode)
    /\ UNCHANGED <<target, first, unseen>>

Rename(o) ==
    /\ At(o, "rename") /\ root = "open"
    /\ target' = temp[o]
    /\ temp' = [temp EXCEPT ![o] = NoFile]
    /\ GoesOn(o, op[o].mode)
    /\ UNCHANGED <<first, unseen>>

(* Any step may fail, and fails when the root is closed; a failing Stat is *)
(* none, but the directory or the check for hard links may fail with it.   *)
(* Then the temporary file is removed, which needs the root as well.       *)
RemovedTemp(o) == NoFile

Fail(o) ==
    /\ Busy(o)
    /\ op' = [op EXCEPT ![o] = Call("failed", "none")]
    /\ temp' = [temp EXCEPT
                  ![o] = IF root = "open" THEN RemovedTemp(o) ELSE @]
    /\ UNCHANGED <<target, first, unseen>>

FileStep(o) ==
    \/ Read(o) \/ Stat(o) \/ Create(o) \/ Write(o)
    \/ Chmod(o) \/ Rename(o) \/ Fail(o)

-----------------------------------------------------------------------------

FileTypeOK ==
    LET files == [mode : OldModes \cup {"0600", "none"}, whole : BOOLEAN]
    IN  /\ root \in {"none", "open", "closed"}
        /\ target \in files /\ first \in files
        /\ op \in [Ops -> [at : Steps \cup {"idle", "done", "failed"},
                           mode : OldModes \cup {"0600", "none"}]]
        /\ temp \in [Ops -> files]
        /\ unseen \subseteq Ops

KeptMode ==
    target.mode = IF target = NoFile \/ first # NoFile
                  THEN first.mode ELSE "0600"

(* Whenever the program is looked at, or killed, the target is complete:   *)
(* as it was or as some call made it; it has the mode it had, or 0600 if   *)
(* it is new, or if a call replaced it whose Stat had failed.              *)
(* (atomicWriteFileRoot.)                                                  *)
FileIntact ==
    /\ target.whole
    /\ \/ KeptMode
       \/ target.mode = "0600" /\ \E o \in unseen : At(o, "done")

(* A call that is over has left no temporary file behind, unless the       *)
(* sandbox root was closed under it.                                       *)
TempsGone ==
    \A o \in Ops :
        Finished(o) => temp[o] = NoFile \/ root = "closed"

(* A write is all or nothing: what is seen is whole, nothing is left over. *)
AtomicWrites == FileIntact /\ TempsGone

-----------------------------------------------------------------------------
(* What a comment says and the code does not do; see the README.           *)

(* "existing files preserve their original mode" (tools.go:1220).          *)
ModeKept == KeptMode

=============================================================================
