------------------------------- MODULE Proving -------------------------------
(***************************************************************************)
(* One host on which workers prove jobs: prover.rs over bounded.rs.        *)
(*                                                                         *)
(* A call of prove makes a scratch directory, copies the prepared circuit  *)
(* into it and runs two tools one after the other, nargo for the witness   *)
(* and bb for the proof. Each runs as a child under a wall clock. A call   *)
(* ends by returning, by being dropped (lease lost, grace over), or with   *)
(* the process it runs in. Only a tool that runs takes time: what prove    *)
(* does between two awaits is one step.                                    *)
(*                                                                         *)
(* Several calls run at once, of different jobs and of successive attempts *)
(* at one job, and workers on one host share the scratch root and the      *)
(* artefact directory (both default to a fixed path).                      *)
(***************************************************************************)
EXTENDS Naturals

CONSTANTS Job,           \* jobs of one circuit
          Call,          \* the attempts proved on this host, as <<job, number>>
          NoCall,
          Crashes,       \* bound on worker processes that die
          Preparations   \* bound on worker starts while others prove

ASSUME ProvingAssumption ==
  /\ Call \subseteq Job \X Nat
  /\ NoCall \notin Call
  /\ Crashes \in Nat /\ Preparations \in Nat

VARIABLES
  inputs,       \* what is true of each job's inputs
  pc,           \* where each call is: the tool it waits for
  answer,       \* what it returned, and whose witness a proof is of
  tool, child,  \* the tool it started last, and whether it still runs
  exit,         \* how that tool ended, if by itself
  dirs,         \* the scratch directories that exist
  files,        \* artefacts in them, with the call whose inputs made them
  artefacts,    \* the prepared circuit: whole, or being rewritten
  torn,         \* calls that read it while it was being rewritten
  crashes, preparations

call == <<pc, answer>>
host == <<artefacts, torn, preparations>>
vars == <<inputs, call, tool, child, exit, dirs, files, host, crashes>>

InProgress(c) == pc[c] \in {"witness", "proof"}

\* How a tool can fail. "unspelled" is a failure whose text names neither the
\* input nor memory in words that mentions_allocation_failure knows: a new
\* runtime, a full disk, a program that is not installed.
Failures == {"rejected", "outOfMemory", "unspelled", "shellSignal", "signalled"}

ProvingTypeOK ==
  /\ inputs \in [Job -> {"good", "rejected", "unrepresentable"}]
  /\ pc \in [Call -> {"waiting", "witness", "proof", "returned"}]
  /\ answer \in [Call -> [verdict : {"none", "proved", "transient", "permanent",
                                     "dropped", "died"},
                          of : Call \cup {NoCall}]]
  /\ tool \in [Call -> {"none", "nargo", "bb"}]
  /\ child \in [Call -> {"none", "running", "blocked", "dying", "gone"}]
  /\ exit \in [Call -> Failures \cup {"none", "done", "empty"}]
  /\ dirs \subseteq Call
  /\ files \subseteq [in : Call, made : {"witness", "proof"}, by : Call]
  /\ artefacts \in {"whole", "rewriting"}
  /\ torn \subseteq Call
  /\ crashes \in 0..Crashes /\ preparations \in 0..Preparations

Init ==
  /\ inputs \in [Job -> {"good", "rejected", "unrepresentable"}]
  /\ pc = [c \in Call |-> "waiting"]
  /\ answer = [c \in Call |-> [verdict |-> "none", of |-> NoCall]]
  /\ tool = [c \in Call |-> "none"] /\ child = [c \in Call |-> "none"]
  /\ exit = [c \in Call |-> "none"]
  /\ dirs = {} /\ files = {}
  /\ artefacts = "whole" /\ torn = {} /\ preparations = 0
  /\ crashes = 0
-----------------------------------------------------------------------------
(* Directories. *)

\* Slip: the scratch directory is named for the job.
JobDirectory(c) == <<c[1], 0>>

\* The label of an attempt: the job's id and the number of the lease.
Directory(c) == c

\* Slip: nargo runs in the prepared package, not in a copy.
PreparedPackage(c) == <<"prepared", 0>>

\* Where nargo reads its inputs and writes the witness.
Package(c) == Directory(c)

\* The artefact a call finds where it expects it.
Found(place, what) == {f \in files : f.in = place /\ f.made = what}

\* A tool that writes its artefact replaces the one there.
Wrote(place, what, by) ==
  files' = (files \ Found(place, what)) \cup {[in |-> place, made |-> what, by |-> by]}

\* Scratch::drop.
Cleanup(c) ==
  /\ dirs' = dirs \ {Directory(c)}
  /\ files' = {f \in files : f.in # Directory(c)}
-----------------------------------------------------------------------------
(* The end of a call. *)

Answer(c, verdict, of) ==
  /\ pc' = [pc EXCEPT ![c] = "returned"]
  /\ answer' = [answer EXCEPT ![c] = [verdict |-> verdict, of |-> of]]

\* Slip: the cleanup stands at the end of the proving function.
ReturnUncleaned(c, verdict, of) ==
  /\ Answer(c, verdict, of)
  /\ IF verdict = "proved" THEN Cleanup(c) ELSE UNCHANGED <<dirs, files>>
  /\ UNCHANGED <<inputs, tool, child, exit, host, crashes>>

\* Return with no child, or with the child reaped: the scratch goes.
Return(c, verdict, of) ==
  /\ Answer(c, verdict, of)
  /\ Cleanup(c)
  /\ UNCHANGED <<inputs, tool, child, exit, host, crashes>>

\* Slip: the child is not told to die with its handle.
Detach(c) == UNCHANGED child

\* kill_on_drop: SIGKILL is sent and not waited for.
Kill(c) == child' = [child EXCEPT ![c] = IF @ \in {"running", "blocked"} THEN "dying" ELSE @]

\* Return with the child still there: it is killed, then the scratch goes,
\* unless the child, in its last moments, puts a file where one was removed.
KillAndReturn(c, verdict) ==
  /\ Answer(c, verdict, NoCall)
  /\ Kill(c)
  /\ Cleanup(c) \/ (child[c] = "running" /\ UNCHANGED <<dirs, files>>)
  /\ UNCHANGED <<inputs, tool, exit, host, crashes>>
-----------------------------------------------------------------------------
(* A call. *)

Start(c, program, step) ==
  /\ pc' = [pc EXCEPT ![c] = step]
  /\ tool' = [tool EXCEPT ![c] = program]
  /\ child' = [child EXCEPT ![c] = "running"]
  /\ exit' = [exit EXCEPT ![c] = "none"]
  /\ torn' = IF artefacts = "rewriting" THEN torn \cup {c} ELSE torn
  /\ UNCHANGED <<inputs, answer, artefacts, preparations, crashes>>

\* has: no usable artefacts, for want of the circuit or in mid-preparation.
UnknownCircuit(c) == pc[c] = "waiting" /\ Return(c, "transient", NoCall)

\* render_prover_toml refuses, before any directory is made.
Unrepresentable(c) ==
  /\ pc[c] = "waiting" /\ inputs[c[1]] = "unrepresentable"
  /\ Return(c, "permanent", NoCall)

\* The directory, the copy, Prover.toml or the shell cannot be had.
SetupFails(c) ==
  /\ pc[c] = "waiting" /\ inputs[c[1]] # "unrepresentable"
  /\ Return(c, "transient", NoCall)

\* Scratch::new takes a directory that is already there for its own.
StartWitness(c) ==
  /\ pc[c] = "waiting" /\ inputs[c[1]] # "unrepresentable"
  /\ dirs' = dirs \cup {Directory(c)}
  /\ UNCHANGED files
  /\ Start(c, "nargo", "witness")

\* Slip: having no exit code is a failure like another.
ClassifyByCode(e) ==
  CASE e = "outOfMemory" -> "AddressSpaceExceeded"
    [] e = "shellSignal" -> "Killed"
    [] e \in {"rejected", "unspelled", "signalled"} -> "Failed"

\* classify_exit. A tool that died of a signal has no code, since the shell
\* replaced itself by the tool; codes above 128 come from tools that are
\* scripts themselves.
Classify(e) ==
  CASE e = "outOfMemory" -> "AddressSpaceExceeded"
    [] e \in {"signalled", "shellSignal"} -> "Killed"
    [] e \in {"rejected", "unspelled"} -> "Failed"

\* is_transient
IsTransient(error) == error # "Failed"

ToolSucceeded(c) == child[c] = "gone" /\ exit[c] \in {"done", "empty"}

\* run returns an error, which ProveError::kind turns into a verdict.
ToolFails(c) ==
  /\ InProgress(c) /\ child[c] = "gone" /\ ~ToolSucceeded(c)
  /\ Return(c, IF IsTransient(Classify(exit[c])) THEN "transient" ELSE "permanent", NoCall)

\* The tool exited zero without writing what it promised, or the second one
\* cannot be started.
StepFails(c) ==
  /\ InProgress(c) /\ ToolSucceeded(c)
  /\ pc[c] = "witness" \/ Found(Directory(c), "proof") = {}
  /\ Return(c, "transient", NoCall)

StartProof(c) ==
  /\ pc[c] = "witness" /\ ToolSucceeded(c)
  /\ Found(Package(c), "witness") # {}
  /\ Start(c, "bb", "proof")
  /\ UNCHANGED <<dirs, files>>

ReturnProof(c) ==
  /\ pc[c] = "proof" /\ ToolSucceeded(c)
  /\ \E f \in Found(Directory(c), "proof") : Return(c, "proved", f.by)

\* Slip: only the wait for the exit status is timed.
WallClockOnExit(c) ==
  /\ InProgress(c) /\ child[c] = "gone"
  /\ KillAndReturn(c, "transient")

\* The wall clock of the running tool, over reading its output as well.
WallClock(c) == InProgress(c) /\ KillAndReturn(c, "transient")

\* The worker drops the call: its lease is lost, or the grace period over.
DropCall(c) == InProgress(c) /\ KillAndReturn(c, "dropped")

\* The worker process dies, and nothing is dropped.
Crash(c) ==
  /\ InProgress(c)
  /\ crashes < Crashes
  /\ crashes' = crashes + 1
  /\ Answer(c, "died", NoCall)
  /\ UNCHANGED <<inputs, tool, child, exit, dirs, files, host>>
-----------------------------------------------------------------------------
(* The tools. *)

\* What the tool of c needs is there and fit to use.
Satisfied(c) ==
  IF tool[c] = "nargo" THEN inputs[c[1]] = "good" /\ Directory(c) \in dirs
                       ELSE Found(Package(c), "witness") # {}

\* The tool ends by itself: without success, or with nothing written.
Exits(c, how) ==
  /\ child[c] = "running"
  /\ how = "rejected" => ~Satisfied(c) \/ c \in torn
  /\ how = "empty" => Satisfied(c)
  /\ child' = [child EXCEPT ![c] = "gone"]
  /\ exit' = [exit EXCEPT ![c] = how]
  /\ UNCHANGED <<inputs, call, tool, dirs, files, host, crashes>>

\* nargo writes a witness of the inputs it was given, and bb a proof of the
\* witness it finds; the names are fixed, so what is there is replaced.
Finishes(c) ==
  /\ child[c] = "running" /\ Satisfied(c)
  /\ IF tool[c] = "nargo"
       THEN Wrote(Package(c), "witness", c)
       ELSE \E f \in Found(Package(c), "witness") : Wrote(Directory(c), "proof", f.by)
  /\ child' = [child EXCEPT ![c] = "gone"]
  /\ exit' = [exit EXCEPT ![c] = "done"]
  /\ UNCHANGED <<inputs, call, tool, dirs, host, crashes>>

\* run reads stdout to its end before it reads stderr at all: a tool that
\* fills the stderr pipe waits for a reader that waits for the tool.
FillStderr(c) ==
  /\ child[c] = "running" /\ InProgress(c)
  /\ child' = [child EXCEPT ![c] = "blocked"]
  /\ UNCHANGED <<inputs, call, tool, exit, dirs, files, host, crashes>>

\* SIGKILL arrives; or the reader is dead and the pipe broken.
Dies(c) ==
  /\ child[c] = "dying" \/ (child[c] = "blocked" /\ ~InProgress(c))
  /\ child' = [child EXCEPT ![c] = "gone"]
  /\ UNCHANGED <<inputs, call, tool, exit, dirs, files, host, crashes>>
-----------------------------------------------------------------------------
(* A worker that starts prepares the circuits anew, into the directory the *)
(* others read. A tool that runs meanwhile may read half a key.            *)

Prepare ==
  /\ artefacts = "whole" /\ preparations < Preparations
  /\ artefacts' = "rewriting"
  /\ preparations' = preparations + 1
  /\ torn' = torn \cup {c \in Call : child[c] = "running" /\ tool[c] = "bb"}
  /\ UNCHANGED <<inputs, call, child, tool, exit, dirs, files, crashes>>

Prepared ==
  /\ artefacts = "rewriting"
  /\ artefacts' = "whole"
  /\ UNCHANGED <<inputs, call, child, tool, exit, dirs, files, torn, preparations, crashes>>

Next ==
  \/ \E c \in Call :
       \/ UnknownCircuit(c) \/ Unrepresentable(c) \/ SetupFails(c)
       \/ StartWitness(c) \/ StartProof(c)
       \/ ToolFails(c) \/ StepFails(c) \/ ReturnProof(c)
       \/ WallClock(c) \/ DropCall(c) \/ Crash(c)
       \/ \E how \in Failures \cup {"empty"} : Exits(c, how)
       \/ Finishes(c) \/ FillStderr(c) \/ Dies(c)
  \/ Prepare \/ Prepared

Spec == Init /\ [][Next]_vars

\* Timers fire and signals arrive. Nothing is asked of the tools.
Fairness == \A c \in Call : WF_vars(WallClock(c)) /\ WF_vars(Dies(c))
-----------------------------------------------------------------------------
(* Properties. *)

\* A proof that is returned is of the witness this call made from its own
\* inputs, whatever else runs on the host: never a valid proof of another
\* job, which nothing downstream would notice.
ProofIsOfItsOwnWitness ==
  \A c \in Call : answer[c].verdict = "proved" => answer[c].of = c

\* While a call goes on, its scratch directory is there and holds nothing of
\* another call's: no late cleanup, orphan or killed child of an earlier
\* attempt at the job reaches into it.
ScratchIsPrivate ==
  \A c \in Call : InProgress(c) =>
    /\ Directory(c) \in dirs
    /\ \A f \in files : f.in = Directory(c) => f.by = c

\* A job is given up for good only for what is wrong with its inputs. The
\* exceptions are those the code cannot tell apart: words it does not know,
\* and a tool that read the artefacts while a worker was rewriting them. No
\* crash, timeout, signal or neighbour fails a job permanently.
PermanentIsDeserved ==
  \A c \in Call : answer[c].verdict = "permanent" =>
    inputs[c[1]] # "good" \/ exit[c] = "unspelled" \/ c \in torn

\* A scratch directory outlives its call only if the worker died, or if the
\* call ended while its child ran: the private inputs of a job that was
\* answered in any other way are gone with the answer.
LeftoversComeFromAKill ==
  \A c \in Call : pc[c] = "returned" /\ Directory(c) \in dirs =>
    answer[c].verdict = "died" \/ (exit[c] = "none" /\ answer[c].verdict # "proved")

\* Every call returns, though its tool hangs, or waits for a reader that
\* waits for it.
EveryCallReturns == \A c \in Call : InProgress(c) ~> pc[c] = "returned"

\* No child outlives its call for ever, unless the worker itself died.
NoChildIsLeftRunning ==
  \A c \in Call : pc[c] = "returned" /\ answer[c].verdict # "died"
                    ~> child[c] \in {"none", "gone"}
=============================================================================
