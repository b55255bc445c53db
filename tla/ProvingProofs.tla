---------------------------- MODULE ProvingProofs ----------------------------
(* Theorems about proving on one host, for any number of jobs, of calls at *)
(* once, of crashes and of preparations, and whatever the tools do.        *)
EXTENDS Proving, TLAPS

Verdict(c) == answer[c].verdict

\* Where a call is says what it has: a child while it waits for one, its
\* directory, and past the first tool a witness in it.
StageOK(c) ==
  /\ pc[c] = "waiting" => child[c] = "none" /\ Directory(c) \notin dirs
  /\ pc[c] = "witness" => tool[c] = "nargo"
  /\ pc[c] = "proof" => tool[c] = "bb" /\ Found(Directory(c), "witness") # {}
  /\ InProgress(c) => child[c] \in {"running", "blocked", "gone"} /\ Directory(c) \in dirs
  /\ pc[c] # "returned" => Verdict(c) = "none"

\* How a tool ended is known when it did, and only if it did so by itself;
\* nothing that is answered for good still has a child to change that.
EndOK(c) ==
  /\ child[c] \in {"running", "blocked", "dying"} => exit[c] = "none"
  /\ InProgress(c) /\ child[c] = "gone" => exit[c] # "none"
  /\ InProgress(c) /\ exit[c] = "rejected" => inputs[c[1]] # "good" \/ c \in torn
  /\ pc[c] = "returned" /\ Verdict(c) # "died" => child[c] \in {"none", "dying", "gone"}

\* What the answer is worth.
AnswerOK(c) ==
  /\ Verdict(c) = "proved" => answer[c].of = c
  /\ Verdict(c) = "permanent" =>
       /\ inputs[c[1]] # "good" \/ exit[c] = "unspelled" \/ c \in torn
       /\ child[c] \in {"none", "gone"}
  /\ pc[c] = "returned" /\ Directory(c) \in dirs =>
       Verdict(c) = "died" \/ (exit[c] = "none" /\ Verdict(c) # "proved")

CallOK(c) == StageOK(c) /\ EndOK(c) /\ AnswerOK(c)

\* Every artefact was made from the inputs of the call whose directory it is in.
FilesAreOwn == \A f \in files : f.by = f.in

ProvingInv == ProvingTypeOK /\ FilesAreOwn /\ \A c \in Call : CallOK(c)
-----------------------------------------------------------------------------
(* One call moves, and the others do not notice.                            *)

FilesOf(c) == {f \in files : f.in = c}

Untouched(c) ==
  /\ pc'[c] = pc[c] /\ answer'[c] = answer[c]
  /\ tool'[c] = tool[c] /\ child'[c] = child[c] /\ exit'[c] = exit[c]
  /\ c \in dirs' <=> c \in dirs
  /\ FilesOf(c)' = FilesOf(c)
  /\ c \in torn => c \in torn'
  /\ inputs' = inputs

OthersUntouched(c) == \A d \in Call : d # c => Untouched(d)

LEMMA UntouchedStaysOK ==
  ASSUME NEW c \in Call, CallOK(c), Untouched(c)
  PROVE  CallOK(c)'
<1>1. Found(Directory(c), "witness") = {f \in FilesOf(c) : f.made = "witness"}
  BY DEF Found, FilesOf, Directory
<1>2. Found(Directory(c), "witness")' = {f \in FilesOf(c)' : f.made = "witness"}
  BY DEF Found, FilesOf, Directory
<1>3. Found(Directory(c), "witness")' = Found(Directory(c), "witness")
  BY <1>1, <1>2 DEF Untouched
<1>4. StageOK(c)'
  BY <1>3 DEF Untouched, CallOK, StageOK, Verdict, InProgress, Directory
<1>5. EndOK(c)'
  BY DEF Untouched, CallOK, EndOK, Verdict, InProgress
<1>6. AnswerOK(c)'
  BY DEF Untouched, CallOK, AnswerOK, Verdict, Directory
<1>7. QED
  BY <1>4, <1>5, <1>6 DEF CallOK

LEMMA OneCallMoves ==
  ASSUME ProvingInv, NEW c \in Call, OthersUntouched(c), CallOK(c)'
  PROVE  \A d \in Call : CallOK(d)'
BY UntouchedStaysOK DEF ProvingInv, OthersUntouched
-----------------------------------------------------------------------------
(* The ways a call ends.                                                    *)

LEMMA CleanupOwn ==
  ASSUME NEW c \in Call, Cleanup(c)
  PROVE  /\ c \notin dirs' /\ \A d \in Call : d # c => (d \in dirs' <=> d \in dirs)
         /\ \A d \in Call : d # c => FilesOf(d)' = FilesOf(d)
         /\ dirs' \subseteq dirs /\ files' \subseteq files
BY DEF Cleanup, Directory, FilesOf

LEMMA AnswerOwn ==
  ASSUME ProvingInv, NEW c \in Call, NEW v, NEW of, Answer(c, v, of)
  PROVE  /\ pc'[c] = "returned" /\ Verdict(c)' = v /\ answer'[c].of = of
         /\ \A d \in Call : d # c => pc'[d] = pc[d] /\ answer'[d] = answer[d]
BY DEF Answer, Verdict, ProvingInv, ProvingTypeOK

\* A return with no child is fit whenever the verdict is.
LEMMA ReturnStep ==
  ASSUME ProvingInv, NEW c \in Call, NEW v, NEW of, Return(c, v, of),
         pc[c] = "waiting" \/ (InProgress(c) /\ child[c] = "gone"),
         v = "proved" => of = c,
         v = "permanent" => inputs[c[1]] # "good" \/ exit[c] = "unspelled" \/ c \in torn
  PROVE  \A d \in Call : CallOK(d)'
<1>1. Answer(c, v, of) /\ Cleanup(c) /\ UNCHANGED <<inputs, tool, child, exit, host, crashes>>
  BY DEF Return
<1>2. /\ pc'[c] = "returned" /\ Verdict(c)' = v /\ answer'[c].of = of
      /\ \A d \in Call : d # c => pc'[d] = pc[d] /\ answer'[d] = answer[d]
  BY <1>1, AnswerOwn
<1>3. OthersUntouched(c)
  BY <1>1, <1>2, CleanupOwn DEF OthersUntouched, Untouched, host
<1>4. c \notin dirs' /\ child[c] \in {"none", "gone"}
  BY <1>1, CleanupOwn DEF ProvingInv, CallOK, StageOK
<1>5. CallOK(c)'
  BY <1>1, <1>2, <1>4
     DEF CallOK, StageOK, EndOK, AnswerOK, InProgress, Directory, host
<1>6. QED
  BY <1>3, <1>5, OneCallMoves

LEMMA KillAndReturnStep ==
  ASSUME ProvingInv, NEW c \in Call, NEW v \in {"transient", "dropped"},
         InProgress(c), KillAndReturn(c, v)
  PROVE  \A d \in Call : CallOK(d)'
<1>1. /\ Answer(c, v, NoCall) /\ Kill(c) /\ UNCHANGED <<inputs, tool, exit, host, crashes>>
      /\ Cleanup(c) \/ (child[c] = "running" /\ UNCHANGED <<dirs, files>>)
  BY DEF KillAndReturn
<1>2. /\ pc'[c] = "returned" /\ Verdict(c)' = v
      /\ \A d \in Call : d # c => pc'[d] = pc[d] /\ answer'[d] = answer[d]
  BY <1>1, AnswerOwn
<1>3. /\ child'[c] = IF child[c] \in {"running", "blocked"} THEN "dying" ELSE child[c]
      /\ \A d \in Call : d # c => child'[d] = child[d]
  BY <1>1 DEF Kill, ProvingInv, ProvingTypeOK
<1>4. OthersUntouched(c)
  BY <1>1, <1>2, <1>3, CleanupOwn DEF OthersUntouched, Untouched, host, FilesOf
<1>5. c \in dirs' => exit[c] = "none"
  BY <1>1, CleanupOwn DEF ProvingInv, CallOK, EndOK
<1>6. CallOK(c)'
  BY <1>1, <1>2, <1>3, <1>5
     DEF ProvingInv, CallOK, StageOK, EndOK, AnswerOK, InProgress, Directory
<1>7. QED
  BY <1>4, <1>6, OneCallMoves

\* A tool starts where its call has a directory and, for the second, a witness.
LEMMA StartStep ==
  ASSUME ProvingInv, NEW c \in Call, pc[c] # "returned",
         NEW p, NEW s, Start(c, p, s), files' = files,
         c \in dirs', \A d \in Call : d # c => (d \in dirs' <=> d \in dirs),
         \/ s = "witness" /\ p = "nargo"
         \/ s = "proof" /\ p = "bb" /\ Found(Directory(c), "witness") # {}
  PROVE  \A d \in Call : CallOK(d)'
<1>1. /\ pc'[c] = s /\ tool'[c] = p /\ child'[c] = "running" /\ exit'[c] = "none"
      /\ \A d \in Call : d # c => /\ pc'[d] = pc[d] /\ tool'[d] = tool[d]
                                 /\ child'[d] = child[d] /\ exit'[d] = exit[d]
      /\ torn \subseteq torn' /\ UNCHANGED <<inputs, answer>>
  BY DEF Start, ProvingInv, ProvingTypeOK
<1>2. OthersUntouched(c)
  BY <1>1 DEF OthersUntouched, Untouched, FilesOf
<1>3. Found(Directory(c), "witness")' = Found(Directory(c), "witness")
  BY DEF Found, Directory
<1>4. Verdict(c)' = "none" /\ Directory(c)' \in dirs'
  BY <1>1 DEF ProvingInv, CallOK, StageOK, Verdict, Directory
<1>5. CallOK(c)'
  BY <1>1, <1>3, <1>4 DEF CallOK, StageOK, EndOK, AnswerOK, InProgress
<1>6. QED
  BY <1>2, <1>5, OneCallMoves
-----------------------------------------------------------------------------
(* What the tools do.                                                       *)

\* A tool that ends by itself was running, so its call is in progress or died.
LEMMA ToolEndsStep ==
  ASSUME ProvingInv, NEW c \in Call, child[c] = "running", NEW e, e # "none",
         child' = [child EXCEPT ![c] = "gone"], exit' = [exit EXCEPT ![c] = e],
         \A d \in Call : d # c => FilesOf(d)' = FilesOf(d),
         Found(Directory(c), "witness") # {} => Found(Directory(c), "witness")' # {},
         UNCHANGED <<inputs, call, tool, dirs, host>>,
         InProgress(c) /\ e = "rejected" => inputs[c[1]] # "good" \/ c \in torn
  PROVE  \A d \in Call : CallOK(d)'
<1>1. /\ child'[c] = "gone" /\ exit'[c] = e
      /\ \A d \in Call : d # c => child'[d] = child[d] /\ exit'[d] = exit[d]
  BY DEF ProvingInv, ProvingTypeOK
<1>2. OthersUntouched(c)
  BY <1>1 DEF OthersUntouched, Untouched, call, host
<1>3. pc[c] = "returned" => Verdict(c) = "died"
  BY DEF ProvingInv, CallOK, EndOK
<1>4. CallOK(c)'
  BY <1>1, <1>3
     DEF ProvingInv, CallOK, StageOK, EndOK, AnswerOK, InProgress, Directory, Verdict, call, host
<1>5. QED
  BY <1>2, <1>4, OneCallMoves

LEMMA ExitsStep ==
  ASSUME ProvingInv, NEW c \in Call, NEW how \in Failures \cup {"empty"}, Exits(c, how)
  PROVE  \A d \in Call : CallOK(d)'
<1>1. InProgress(c) /\ how = "rejected" => inputs[c[1]] # "good" \/ c \in torn
  BY DEF Exits, Satisfied, ProvingInv, CallOK, StageOK, InProgress, Package
<1>2. how # "none"
  BY DEF Failures
<1>3. \A d \in Call : FilesOf(d)' = FilesOf(d)
  BY DEF Exits, FilesOf
<1>4. Found(Directory(c), "witness")' = Found(Directory(c), "witness")
  BY DEF Exits, Found, Directory
<1>5. QED
  BY <1>1, <1>2, <1>3, <1>4, ToolEndsStep DEF Exits

LEMMA WroteOwn ==
  ASSUME ProvingInv, NEW c \in Call, NEW what \in {"witness", "proof"},
         Wrote(Directory(c), what, c)
  PROVE  /\ files' \subseteq [in : Call, made : {"witness", "proof"}, by : Call]
         /\ FilesAreOwn'
         /\ \A d \in Call : d # c => FilesOf(d)' = FilesOf(d)
         /\ Found(Directory(c), "witness") # {} => Found(Directory(c), "witness")' # {}
BY DEF Wrote, Found, Directory, FilesOf, FilesAreOwn, ProvingInv, ProvingTypeOK

\* What the tool writes is made from the inputs of its own call.
LEMMA FinishesOwn ==
  ASSUME ProvingInv, NEW c \in Call, Finishes(c)
  PROVE  \E what \in {"witness", "proof"} : Wrote(Directory(c), what, c)
<1>1. CASE tool[c] = "nargo"
  BY <1>1 DEF Finishes, Package
<1>2. CASE tool[c] # "nargo"
  <2>1. PICK f \in Found(Package(c), "witness") : Wrote(Directory(c), "proof", f.by)
    BY <1>2 DEF Finishes
  <2>2. f.by = c
    BY <2>1 DEF Found, Package, Directory, ProvingInv, FilesAreOwn
  <2>3. QED
    BY <2>1, <2>2
<1>3. QED
  BY <1>1, <1>2

LEMMA FinishesStep ==
  ASSUME ProvingInv, NEW c \in Call, Finishes(c)
  PROVE  \A d \in Call : CallOK(d)'
<1>1. /\ \A d \in Call : d # c => FilesOf(d)' = FilesOf(d)
      /\ Found(Directory(c), "witness") # {} => Found(Directory(c), "witness")' # {}
  BY FinishesOwn, WroteOwn
<1>2. /\ child[c] = "running"
      /\ child' = [child EXCEPT ![c] = "gone"] /\ exit' = [exit EXCEPT ![c] = "done"]
      /\ UNCHANGED <<inputs, call, tool, dirs, host>>
  BY DEF Finishes
<1>3. QED
  BY <1>1, <1>2, ToolEndsStep

\* The child is blocked on its pipe, or a killed one is gone.
LEMMA ChildMovesStep ==
  ASSUME ProvingInv, NEW c \in Call, FillStderr(c) \/ Dies(c)
  PROVE  \A d \in Call : CallOK(d)'
<1>1. UNCHANGED <<inputs, call, tool, exit, dirs, files, host, crashes>>
  BY DEF FillStderr, Dies
<1>2. /\ \A d \in Call : d # c => child'[d] = child[d]
      /\ \/ child[c] = "running" /\ InProgress(c) /\ child'[c] = "blocked"
         \/ child[c] \in {"dying", "blocked"} /\ ~(InProgress(c)) /\ child'[c] = "gone"
  BY DEF FillStderr, Dies, ProvingInv, ProvingTypeOK, CallOK, StageOK
<1>3. OthersUntouched(c)
  BY <1>1, <1>2 DEF OthersUntouched, Untouched, call, host, FilesOf
<1>4. Found(Directory(c), "witness")' = Found(Directory(c), "witness")
  BY <1>1 DEF Found, Directory
<1>5. CallOK(c)'
  BY <1>1, <1>2, <1>4
     DEF ProvingInv, CallOK, StageOK, EndOK, AnswerOK, InProgress, Directory, Verdict, call, host
<1>6. QED
  BY <1>3, <1>5, OneCallMoves

\* A worker dies: its call is over, and child, directory and files stay.
LEMMA CrashStep ==
  ASSUME ProvingInv, NEW c \in Call, Crash(c)
  PROVE  \A d \in Call : CallOK(d)'
<1>1. UNCHANGED <<inputs, tool, child, exit, dirs, files, host>> /\ Answer(c, "died", NoCall)
  BY DEF Crash
<1>2. /\ pc'[c] = "returned" /\ Verdict(c)' = "died"
      /\ \A d \in Call : d # c => pc'[d] = pc[d] /\ answer'[d] = answer[d]
  BY <1>1, AnswerOwn
<1>3. OthersUntouched(c)
  BY <1>1, <1>2 DEF OthersUntouched, Untouched, host, FilesOf
<1>4. CallOK(c)'
  BY <1>1, <1>2
     DEF ProvingInv, CallOK, StageOK, EndOK, AnswerOK, InProgress, Directory
<1>5. QED
  BY <1>3, <1>4, OneCallMoves

\* A preparation tears what is read meanwhile, and touches no call.
LEMMA PreparationStep ==
  ASSUME ProvingInv, Prepare \/ Prepared
  PROVE  \A d \in Call : CallOK(d)'
<1>1. \A d \in Call : Untouched(d)
  BY DEF Prepare, Prepared, Untouched, FilesOf, call
<1>2. QED
  BY <1>1, UntouchedStaysOK DEF ProvingInv

LEMMA CallsStep ==
  ASSUME ProvingInv, [Next]_vars
  PROVE  \A d \in Call : CallOK(d)'
<1>1. ASSUME NEW c \in Call, UnknownCircuit(c) \/ Unrepresentable(c) \/ SetupFails(c)
      PROVE  \A d \in Call : CallOK(d)'
  BY <1>1, ReturnStep DEF UnknownCircuit, Unrepresentable, SetupFails
<1>2. ASSUME NEW c \in Call, ToolFails(c) PROVE \A d \in Call : CallOK(d)'
  <2> DEFINE v == IF IsTransient(Classify(exit[c])) THEN "transient" ELSE "permanent"
  <2>1. InProgress(c) /\ child[c] = "gone" /\ Return(c, v, NoCall)
    BY <1>2 DEF ToolFails
  <2>2. exit[c] \in Failures
    BY <1>2, <2>1 DEF ToolFails, ToolSucceeded, ProvingInv, ProvingTypeOK, CallOK, EndOK
  <2>3. v = "permanent" => exit[c] \in {"rejected", "unspelled"}
    BY <2>2 DEF IsTransient, Classify, Failures
  <2>4. v = "permanent" => inputs[c[1]] # "good" \/ exit[c] = "unspelled" \/ c \in torn
    BY <2>1, <2>3 DEF ProvingInv, CallOK, EndOK
  <2>5. v # "proved"
    OBVIOUS
  <2> HIDE DEF v
  <2>6. QED
    BY <2>1, <2>4, <2>5, ReturnStep
<1>3. ASSUME NEW c \in Call, StepFails(c) PROVE \A d \in Call : CallOK(d)'
  BY <1>3, ReturnStep DEF StepFails, ToolSucceeded
<1>4. ASSUME NEW c \in Call, ReturnProof(c) PROVE \A d \in Call : CallOK(d)'
  <2>1. PICK f \in Found(Directory(c), "proof") : Return(c, "proved", f.by)
    BY <1>4 DEF ReturnProof
  <2>2. f.by = c
    BY <2>1 DEF Found, Directory, ProvingInv, FilesAreOwn
  <2>3. InProgress(c) /\ child[c] = "gone"
    BY <1>4 DEF ReturnProof, ToolSucceeded, InProgress
  <2>4. QED
    BY <2>1, <2>2, <2>3, ReturnStep
<1>5. ASSUME NEW c \in Call, WallClock(c) \/ DropCall(c) PROVE \A d \in Call : CallOK(d)'
  BY <1>5, KillAndReturnStep DEF WallClock, DropCall
<1>6. ASSUME NEW c \in Call, StartWitness(c) PROVE \A d \in Call : CallOK(d)'
  <2>1. /\ c \in dirs' /\ \A d \in Call : d # c => (d \in dirs' <=> d \in dirs)
        /\ files' = files /\ Start(c, "nargo", "witness") /\ pc[c] # "returned"
    BY <1>6 DEF StartWitness, Directory
  <2>2. QED
    BY <2>1, StartStep
<1>7. ASSUME NEW c \in Call, StartProof(c) PROVE \A d \in Call : CallOK(d)'
  <2>1. /\ c \in dirs' /\ dirs' = dirs
        /\ files' = files /\ Start(c, "bb", "proof") /\ pc[c] # "returned"
        /\ Found(Directory(c), "witness") # {}
    BY <1>7 DEF StartProof, Directory, Package, ProvingInv, CallOK, StageOK, InProgress
  <2>2. QED
    BY <2>1, StartStep
<1>8. CASE UNCHANGED vars
  <2>1. \A d \in Call : Untouched(d)
    BY <1>8 DEF vars, call, host, Untouched, FilesOf
  <2>2. QED
    BY <2>1, UntouchedStaysOK DEF ProvingInv
<1>9. QED
  BY <1>1, <1>2, <1>3, <1>4, <1>5, <1>6, <1>7, <1>8, CrashStep, ExitsStep, FinishesStep,
     ChildMovesStep, PreparationStep DEF Next
-----------------------------------------------------------------------------
(* Files and types.                                                         *)

\* Nothing but a tool that finishes writes, and a cleanup only removes.
LEMMA FilesStep ==
  ASSUME ProvingInv, [Next]_vars
  PROVE  /\ FilesAreOwn'
         /\ files' \subseteq [in : Call, made : {"witness", "proof"}, by : Call]
<1>1. files \subseteq [in : Call, made : {"witness", "proof"}, by : Call] /\ FilesAreOwn
  BY DEF ProvingInv, ProvingTypeOK
<1>2. CASE files' \subseteq files
  BY <1>1, <1>2 DEF FilesAreOwn
<1>3. ASSUME NEW c \in Call, Finishes(c)
      PROVE  /\ FilesAreOwn'
             /\ files' \subseteq [in : Call, made : {"witness", "proof"}, by : Call]
  BY <1>3, FinishesOwn, WroteOwn
<1>4. ASSUME NEW c \in Call, NEW v, NEW of, Return(c, v, of) \/ KillAndReturn(c, v)
      PROVE  files' \subseteq files
  BY <1>4 DEF Return, KillAndReturn, Cleanup
<1>5. ASSUME NEW c \in Call,
             \/ UnknownCircuit(c) \/ Unrepresentable(c) \/ SetupFails(c)
             \/ ToolFails(c) \/ StepFails(c) \/ ReturnProof(c)
             \/ WallClock(c) \/ DropCall(c)
      PROVE  files' \subseteq files
  BY <1>4, <1>5 DEF UnknownCircuit, Unrepresentable, SetupFails, ToolFails, StepFails,
                    ReturnProof, WallClock, DropCall
<1>6. ASSUME NEW c \in Call,
             \/ StartWitness(c) \/ StartProof(c) \/ Crash(c) \/ FillStderr(c) \/ Dies(c)
             \/ \E how \in Failures \cup {"empty"} : Exits(c, how)
      PROVE  files' \subseteq files
  BY <1>6 DEF StartWitness, StartProof, Crash, FillStderr, Dies, Exits
<1>7. CASE Prepare \/ Prepared \/ UNCHANGED vars
  BY <1>2, <1>7 DEF Prepare, Prepared, vars
<1>8. QED
  BY <1>2, <1>3, <1>5, <1>6, <1>7 DEF Next

\* The shape of what a call sets when it ends.
LEMMA AnswerTypes ==
  ASSUME ProvingTypeOK, NEW c \in Call,
         NEW v \in {"none", "proved", "transient", "permanent", "dropped", "died"},
         NEW of \in Call \cup {NoCall}, Answer(c, v, of)
  PROVE  /\ pc' \in [Call -> {"waiting", "witness", "proof", "returned"}]
         /\ answer' \in [Call -> [verdict : {"none", "proved", "transient", "permanent",
                                             "dropped", "died"},
                                  of : Call \cup {NoCall}]]
BY DEF Answer, ProvingTypeOK

LEMMA ReturnTypes ==
  ASSUME ProvingTypeOK, NEW c \in Call,
         NEW v \in {"proved", "transient", "permanent"},
         NEW of \in Call \cup {NoCall}, Return(c, v, of)
  PROVE  ProvingTypeOK'
<1>1. Answer(c, v, of) /\ Cleanup(c) /\ UNCHANGED <<inputs, tool, child, exit, host, crashes>>
  BY DEF Return
<1>2. dirs' \subseteq dirs /\ files' \subseteq files
  BY <1>1 DEF Cleanup
<1>3. QED
  BY <1>1, <1>2, AnswerTypes DEF ProvingTypeOK, host

LEMMA KillAndReturnTypes ==
  ASSUME ProvingTypeOK, NEW c \in Call, NEW v \in {"transient", "dropped"},
         KillAndReturn(c, v)
  PROVE  ProvingTypeOK'
<1>1. Answer(c, v, NoCall) /\ Kill(c) /\ UNCHANGED <<inputs, tool, exit, host, crashes>>
  BY DEF KillAndReturn
<1>2. dirs' \subseteq dirs /\ files' \subseteq files
  BY DEF KillAndReturn, Cleanup
<1>3. child' \in [Call -> {"none", "running", "blocked", "dying", "gone"}]
  BY <1>1 DEF Kill, ProvingTypeOK
<1>4. QED
  BY <1>1, <1>2, <1>3, AnswerTypes DEF ProvingTypeOK, host

LEMMA TypesStep ==
  ASSUME ProvingInv, [Next]_vars
  PROVE  ProvingTypeOK'
<1> USE DEF ProvingInv
<1>1. ASSUME NEW c \in Call,
             \/ UnknownCircuit(c) \/ Unrepresentable(c) \/ SetupFails(c)
             \/ ToolFails(c) \/ StepFails(c)
      PROVE  ProvingTypeOK'
  BY <1>1, ReturnTypes
     DEF UnknownCircuit, Unrepresentable, SetupFails, ToolFails, StepFails
<1>2. ASSUME NEW c \in Call, ReturnProof(c) PROVE ProvingTypeOK'
  <2>1. PICK f \in Found(Directory(c), "proof") : Return(c, "proved", f.by)
    BY <1>2 DEF ReturnProof
  <2>2. f.by \in Call
    BY <2>1 DEF Found, ProvingTypeOK
  <2>3. QED
    BY <2>1, <2>2, ReturnTypes
<1>3. ASSUME NEW c \in Call, WallClock(c) \/ DropCall(c) PROVE ProvingTypeOK'
  BY <1>3, KillAndReturnTypes DEF WallClock, DropCall
<1>4. ASSUME NEW c \in Call, StartWitness(c) \/ StartProof(c) PROVE ProvingTypeOK'
  BY <1>4 DEF StartWitness, StartProof, Start, ProvingTypeOK, Directory
<1>5. ASSUME NEW c \in Call, Crash(c) PROVE ProvingTypeOK'
  <2>1. Answer(c, "died", NoCall) /\ UNCHANGED <<inputs, tool, child, exit, dirs, files, host>>
    BY <1>5 DEF Crash
  <2>2. crashes' \in 0..Crashes
    BY <1>5, ProvingAssumption DEF Crash, ProvingTypeOK
  <2>3. QED
    BY <2>1, <2>2, AnswerTypes DEF ProvingTypeOK, host
<1>6. ASSUME NEW c \in Call, NEW how \in Failures \cup {"empty"}, Exits(c, how)
      PROVE  ProvingTypeOK'
  BY <1>6 DEF Exits, ProvingTypeOK, call, host
<1>7. ASSUME NEW c \in Call, Finishes(c) PROVE ProvingTypeOK'
  <2>1. files' \subseteq [in : Call, made : {"witness", "proof"}, by : Call]
    BY <1>7, FinishesOwn, WroteOwn
  <2>2. /\ child' = [child EXCEPT ![c] = "gone"] /\ exit' = [exit EXCEPT ![c] = "done"]
        /\ UNCHANGED <<inputs, call, tool, dirs, host, crashes>>
    BY <1>7 DEF Finishes
  <2>3. QED
    BY <2>1, <2>2 DEF ProvingTypeOK, call, host
<1>8. ASSUME NEW c \in Call, FillStderr(c) \/ Dies(c) PROVE ProvingTypeOK'
  BY <1>8 DEF FillStderr, Dies, ProvingTypeOK, call, host
<1>9. CASE Prepare \/ Prepared
  BY <1>9, ProvingAssumption DEF Prepare, Prepared, ProvingTypeOK, call
<1>10. CASE UNCHANGED vars
  BY <1>10 DEF vars, call, host, ProvingTypeOK
<1>11. QED
  BY <1>1, <1>2, <1>3, <1>4, <1>5, <1>6, <1>7, <1>8, <1>9, <1>10 DEF Next
-----------------------------------------------------------------------------
(* The theorems.                                                            *)

LEMMA ProvingInductive == Spec => []ProvingInv
<1>1. Init => ProvingInv
  BY ProvingAssumption
     DEF Init, ProvingInv, ProvingTypeOK, FilesAreOwn, CallOK, StageOK, EndOK, AnswerOK,
         InProgress, Verdict, Failures
<1>2. ProvingInv /\ [Next]_vars => ProvingInv'
  BY TypesStep, FilesStep, CallsStep DEF ProvingInv
<1>3. QED
  BY <1>1, <1>2, PTL DEF Spec

\* The state of a host keeps its type: calls, children, directories and
\* artefacts of prover.rs, whatever ends a call.
THEOREM ProvingTypes == Spec => []ProvingTypeOK
BY ProvingInductive, PTL DEF ProvingInv

\* A proof that prove returns is of the witness of the same call, for any
\* number of calls on the host: of the same job, killed, orphaned or alive.
THEOREM ProofsAreOwn == Spec => []ProofIsOfItsOwnWitness
<1>1. ProvingInv => ProofIsOfItsOwnWitness
  BY DEF ProvingInv, CallOK, AnswerOK, ProofIsOfItsOwnWitness, Verdict
<1>2. QED
  BY <1>1, ProvingInductive, PTL

\* A call in progress has its scratch directory to itself.
THEOREM ScratchStaysPrivate == Spec => []ScratchIsPrivate
<1>1. ProvingInv => ScratchIsPrivate
  BY DEF ProvingInv, CallOK, StageOK, FilesAreOwn, ScratchIsPrivate, Directory
<1>2. QED
  BY <1>1, ProvingInductive, PTL

\* A permanent failure is the inputs' fault, or one of the two the code
\* cannot tell apart from it.
THEOREM PermanentFailuresAreDeserved == Spec => []PermanentIsDeserved
<1>1. ProvingInv => PermanentIsDeserved
  BY DEF ProvingInv, CallOK, AnswerOK, PermanentIsDeserved, Verdict
<1>2. QED
  BY <1>1, ProvingInductive, PTL

\* A scratch directory that outlives its call was left by a death or by a kill.
THEOREM LeftoversAreOfKills == Spec => []LeftoversComeFromAKill
<1>1. ProvingInv => LeftoversComeFromAKill
  BY DEF ProvingInv, CallOK, AnswerOK, LeftoversComeFromAKill, Verdict
<1>2. QED
  BY <1>1, ProvingInductive, PTL
=============================================================================
