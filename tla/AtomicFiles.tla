----------------------------- MODULE AtomicFiles ----------------------------
(***************************************************************************)
(* What a directory of small files promises the commands that share it:    *)
(* a file is absent or whole, a command that writes or deletes one does so *)
(* in a single step between its start and its end, it has done so when it  *)
(* reports success and has not when it reports failure, and a read returns *)
(* what the file held at one moment of the read.                           *)
(*                                                                         *)
(* RecordStore (the package records) and RepoConfig (the configured        *)
(* repositories) are two implementations.                                  *)
(***************************************************************************)
CONSTANTS
  Name,   \* what a file can be called
  Value,  \* what a file can hold
  None,   \* the value of a file that is not there
  Proc    \* the commands

VARIABLES
  file,   \* the value of each file
  call,   \* what each command is doing
  ended   \* how a command ended in the step before, "none" if no command did

vars == <<file, call, ended>>

NoCall == [op |-> "none", name |-> None, value |-> None, phase |-> "none"]

Init ==
  /\ file = [n \in Name |-> None]
  /\ call = [p \in Proc |-> NoCall]
  /\ ended = "none"

Start(p) ==
  /\ call[p] = NoCall
  /\ \E op \in {"put", "delete", "read"}, n \in Name :
       \E v \in IF op = "put" THEN Value ELSE {None} :
         call' = [call EXCEPT ![p] = [op |-> op, name |-> n, value |-> v, phase |-> "begun"]]
  /\ ended' = "none"
  /\ UNCHANGED file

Put(p) ==
  /\ call[p].op = "put" /\ call[p].phase = "begun"
  /\ file' = [file EXCEPT ![call[p].name] = call[p].value]
  /\ call' = [call EXCEPT ![p].phase = "done"]
  /\ ended' = "none"

Delete(p) ==
  /\ call[p].op = "delete" /\ call[p].phase = "begun"
  /\ file[call[p].name] # None
  /\ file' = [file EXCEPT ![call[p].name] = None]
  /\ call' = [call EXCEPT ![p].phase = "done"]
  /\ ended' = "none"

Read(p) ==
  /\ call[p].op = "read" /\ call[p].phase = "begun"
  /\ LET n == call[p].name IN
       /\ file[n] # None
       /\ call' = [call EXCEPT ![p] =
            [op |-> "read", name |-> n, value |-> file[n], phase |-> "done"]]
  /\ ended' = "none"
  /\ UNCHANGED file

End(p, outcome) ==
  /\ call[p] # NoCall
  /\ call' = [call EXCEPT ![p] = NoCall]
  /\ ended' = outcome
  /\ UNCHANGED file

Return(p) == call[p].phase = "done" /\ End(p, "ok")
Fail(p)   == (call[p].phase = "done" => call[p].op = "read") /\ End(p, "failed")
Die(p)    == End(p, "killed")

\* A step that has nothing to do with the files.
Pass == ended' = "none" /\ UNCHANGED <<file, call>>

Next == Pass \/ \E p \in Proc :
  Start(p) \/ Put(p) \/ Delete(p) \/ Read(p) \/ Return(p) \/ Fail(p) \/ Die(p)

Spec == Init /\ [][Next]_vars
=============================================================================
