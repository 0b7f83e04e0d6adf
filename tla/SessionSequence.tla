--------------------------- MODULE SessionSequence ---------------------------
(***************************************************************************)
(* Several sessions and many runs in one thread (include/Session/Session.h, *)
(* Session.tpp): which session records a statement, if any, when what was   *)
(* recorded is carried out, and what immediate statements see in between.   *)
(* Runs may be nested, one inside the lambda of another.                   *)
(*                                                                         *)
(* A single run's recording, graph and execution are SessionRun's subject   *)
(* and appear through what it shows of them: a run that succeeds carries    *)
(* out what was recorded in order, on the ciphertexts alone; one that fails *)
(* carries out nothing.  All variables belong to the caller, are encrypted  *)
(* and have a profile; every session is kept alive by its user.            *)
(***************************************************************************)
EXTENDS Integers, Sequences

CONSTANTS
  Variables,      \* Fhenon variables
  Sessions,       \* sessions, created in any order
  MaxStatements,  \* bound on the statements executed
  MaxRuns,        \* bound on the calls of run()
  Nothing         \* a null pointer, a plaintext nobody knows

ASSUME BoundsAssumption == MaxStatements \in Nat /\ MaxRuns \in Nat
ASSUME NothingAssumption == Nothing \notin Sessions

VARIABLES
  made,      \* the sessions that exist
  current,   \* session_ptr_, of this thread
  active,    \* active_ of each session
  recorded,  \* operations_ of each session
  frames,    \* the calls of run() in progress, innermost last
  throwing,  \* an exception is on its way out of them
  plain,     \* val_
  cipher,    \* what ciphertext_ encrypts
  steps,     \* statements executed
  runs       \* calls of run() made

(* Of the properties: the values after each statement, had it taken effect  *)
(* at once; the ciphertexts when the outermost run began; whether that run  *)
(* is one of the current session with nothing nested in it, and how it      *)
(* ended; whether a statement was taken out of order, see Unordered.        *)
VARIABLES order, before, simple, ended, unordered

storeVars == <<plain, cipher>>
runVars == <<frames, throwing>>
ghostVars == <<order, before, simple, ended, unordered>>
vars == <<made, current, active, recorded, runVars, storeVars, steps, runs, ghostVars>>

Fresh == [v \in Variables |-> <<v>>]

(* A thread has no current session until it creates one, and may run one    *)
(* made elsewhere.                                                         *)
Init ==
  /\ made \in {{}} \cup {{s} : s \in Sessions}
  /\ current = Nothing
  /\ active = [s \in Sessions |-> FALSE]
  /\ recorded = [s \in Sessions |-> << >>]
  /\ frames = << >> /\ throwing = FALSE
  /\ plain = Fresh /\ cipher = Fresh
  /\ steps = 0 /\ runs = 0
  /\ order = <<Fresh>> /\ before = Fresh
  /\ simple = FALSE /\ ended = "no" /\ unordered = FALSE

isRecording == current # Nothing /\ active[current]

Running == frames # << >>
Innermost == frames[Len(frames)]
Outer == SubSeq(frames, 1, Len(frames) - 1)

Latest == order[Len(order)]

-----------------------------------------------------------------------------
(* x = 7, x = y and x = x + y.                                             *)
Constant(x, k) == [target |-> x, op |-> "constant", value |-> <<k>>]
Copy(x, y) == [target |-> x, op |-> "copy", source |-> y]
Sum(x, y) == [target |-> x, op |-> "add", source |-> y]

Assigned(statement, env) ==
  CASE statement.op = "constant" -> statement.value
    [] statement.op = "copy" -> env[statement.source]
    [] statement.op = "add" -> <<env[statement.target], env[statement.source]>>

Effect(statement, env) == [env EXCEPT ![statement.target] = Assigned(statement, env)]

EffectOfAll(statements, env) ==
  LET after[k \in 0..Len(statements)] ==
        IF k = 0 THEN env ELSE Effect(statements[k], after[k - 1])
  IN  after[Len(statements)]

(* val_ after an immediate statement: a sum of ciphertexts has none.        *)
Mirrored(statement) ==
  IF statement.op = "add" THEN [plain EXCEPT ![statement.target] = Nothing]
  ELSE Effect(statement, plain)

(* Whoever is running, the current session records while it is active; what *)
(* nobody records takes effect at once.                                    *)
Execute(statement) ==
  /\ ~throwing /\ steps < MaxStatements /\ steps' = steps + 1
  /\ IF isRecording
       THEN /\ recorded' = [recorded EXCEPT ![current] = Append(@, statement)]
            /\ UNCHANGED storeVars
       ELSE /\ cipher' = Effect(statement, cipher)
            /\ plain' = Mirrored(statement)
            /\ UNCHANGED recorded
  /\ order' = Append(order, Effect(statement, Latest))
  /\ ended' = "no"
  /\ UNCHANGED <<made, current, active, runVars, runs, before, simple, unordered>>

AssignConstant == \E x \in Variables : Execute(Constant(x, steps))
AssignCopy == \E x, y \in Variables : x # y /\ Execute(Copy(x, y))
AssignSum == \E x, y \in Variables : Execute(Sum(x, y))

(* x.belong(...) encrypts val_, recording or not.                           *)
Belong(x) ==
  /\ ~throwing /\ cipher[x] # plain[x]
  /\ cipher' = [cipher EXCEPT ![x] = plain[x]]
  /\ unordered' = TRUE
  /\ ended' = "no"
  /\ UNCHANGED <<made, current, active, recorded, runVars, plain, steps, runs,
                 order, before, simple>>

-----------------------------------------------------------------------------
(* Session::create.                                                        *)
Create(s) ==
  /\ ~throwing /\ s \notin made
  /\ made' = made \cup {s}
  /\ current' = s
  /\ unordered' = (unordered \/ (isRecording /\ recorded[current] # << >>))
  /\ simple' = (simple /\ ~Running)
  /\ UNCHANGED <<active, recorded, runVars, storeVars, steps, runs, order, before, ended>>

(* Fault: a run always makes its session the current one.                   *)
BeginTakesOver(s) ==
  /\ ~throwing /\ s \in made /\ runs < MaxRuns /\ runs' = runs + 1
  /\ current' = s
  /\ active' = [active EXCEPT ![s] = TRUE]
  /\ frames' = Append(frames, s)
  /\ before' = IF Running THEN before ELSE cipher
  /\ simple' = (~Running /\ current' = s)
  /\ ended' = "no"
  /\ UNCHANGED <<made, recorded, throwing, storeVars, steps, order, unordered>>

(* Fault: a session records as soon as it is the current one.               *)
BeginInactive(s) ==
  /\ ~throwing /\ s \in made /\ runs < MaxRuns /\ runs' = runs + 1
  /\ current' = IF current = Nothing THEN s ELSE current
  /\ active' = [active EXCEPT ![s] = current # Nothing]
  /\ frames' = Append(frames, s)
  /\ before' = IF Running THEN before ELSE cipher
  /\ simple' = (~Running /\ current' = s)
  /\ ended' = "no"
  /\ UNCHANGED <<made, recorded, throwing, storeVars, steps, order, unordered>>

(* run() is called, up to its lambda.                                      *)
Begin(s) ==
  /\ ~throwing /\ s \in made /\ runs < MaxRuns /\ runs' = runs + 1
  /\ current' = IF current = Nothing THEN s ELSE current
  /\ active' = [active EXCEPT ![s] = TRUE]
  /\ frames' = Append(frames, s)
  /\ before' = IF Running THEN before ELSE cipher
  /\ simple' = (~Running /\ current' = s)
  /\ ended' = "no"
  /\ UNCHANGED <<made, recorded, throwing, storeVars, steps, order, unordered>>

(* Fault: nothing is cleared but the flag.                                  *)
endRunKeepsOperations(s) ==
  active' = [active EXCEPT ![s] = FALSE] /\ UNCHANGED recorded

endRun(s) ==
  /\ active' = [active EXCEPT ![s] = FALSE]
  /\ recorded' = [recorded EXCEPT ![s] = << >>]

(* The lambda returns and everything recorded is carried out.               *)
Return ==
  /\ Running /\ ~throwing
  /\ cipher' = EffectOfAll(recorded[Innermost], cipher)
  /\ endRun(Innermost)
  /\ frames' = Outer
  /\ ended' = "returned"
  /\ UNCHANGED <<made, current, throwing, plain, steps, runs, order, before, simple, unordered>>

(* The lambda or the execution throws, or a call of run() inside the lambda *)
(* did and nobody caught it: the recording is dropped, and the statements   *)
(* in it never happen.                                                     *)
Throw ==
  /\ Running
  /\ endRun(Innermost)
  /\ frames' = Outer
  /\ throwing' = (Outer # << >>)
  /\ order' = IF recorded[Innermost] = << >> THEN order ELSE <<cipher>>
  /\ ended' = "threw"
  /\ UNCHANGED <<made, current, storeVars, steps, runs, before, simple, unordered>>

(* The enclosing lambda catches the exception of a run it called.           *)
Catch ==
  /\ throwing
  /\ throwing' = FALSE
  /\ UNCHANGED <<made, current, active, recorded, frames, storeVars, steps, runs, ghostVars>>

Next ==
  \/ AssignConstant \/ AssignCopy \/ AssignSum
  \/ \E x \in Variables : Belong(x)
  \/ \E s \in Sessions : Create(s) \/ Begin(s)
  \/ Return \/ Throw \/ Catch

Spec == Init /\ [][Next]_vars

-----------------------------------------------------------------------------
(* Every variable keeps its type; a session records only inside a call of   *)
(* its run(), which leaves it inactive and empty however it ends            *)
(* (Session.h:128-141).                                                     *)
TypeOK ==
  /\ made \subseteq Sessions /\ current \in made \cup {Nothing}
  /\ DOMAIN cipher = Variables /\ DOMAIN plain = Variables
  /\ steps \in 0..MaxStatements /\ runs \in 0..MaxRuns
  /\ active \in [Sessions -> BOOLEAN]
  /\ frames \in Seq(made)
  /\ throwing => Running
  /\ \A s \in Sessions :
       /\ active[s] => \E k \in DOMAIN frames : frames[k] = s
       /\ recorded[s] # << >> => active[s]

(* However runs follow, nest and fail, and whichever session is current,    *)
(* "every recorded operation must observe earlier writes to the same        *)
(* variable" (Session.h:86-88), immediate ones included: the ciphertexts    *)
(* are always those some prefix of the statements executed so far would     *)
(* have left, and all of them once no run is in progress.  Left out are the *)
(* two calls the recording cannot put in order: creating a session while    *)
(* another has statements pending, and belong() on a variable whose val_    *)
(* is not what it encrypts.                                                *)
EffectsInOrder ==
  ~unordered =>
    /\ \E k \in DOMAIN order : cipher = order[k]
    /\ ~Running => cipher = Latest

(* A failed run of the current session, with no run and no session of its   *)
(* own inside it, leaves every ciphertext as it was (SessionTest.cpp:180):   *)
(* nothing in it was executed at once.                                      *)
FailedRunChangesNothing ==
  ended = "threw" /\ simple /\ ~Running /\ ~unordered => cipher = before

-----------------------------------------------------------------------------
(* Why these hold (SessionSequenceProofs).                                  *)

(* What is recorded and not carried out yet: only the current session has   *)
(* recorded anything.                                                       *)
Pending == IF current = Nothing THEN << >> ELSE recorded[current]

(* The values after every statement are what carrying out the pending ones  *)
(* would leave, and the ciphertexts are those before the first of them.     *)
PendingInOrder ==
  ~unordered =>
    /\ \A s \in Sessions : s # current => recorded[s] = << >>
    /\ Len(Pending) < Len(order)
    /\ cipher = order[Len(order) - Len(Pending)]
    /\ Latest = EffectOfAll(Pending, cipher)

(* A simple run in progress is the only one, its session records, and it    *)
(* has touched nothing; one that failed has not either.                     *)
SimpleUntouched ==
  /\ simple /\ Running =>
       /\ Len(frames) = 1 /\ current = Innermost /\ active[current]
       /\ ~throwing /\ ended = "no"
       /\ ~unordered => cipher = before
  /\ simple /\ ended = "threw" /\ ~unordered => cipher = before

Statements ==
  [target : Variables, op : {"constant"}, value : {<<k>> : k \in 0..MaxStatements}]
    \cup [target : Variables, op : {"copy", "add"}, source : Variables]

RecordedTyped == recorded \in [Sessions -> Seq(Statements)]

OrderTyped == order \in Seq({order[k] : k \in DOMAIN order}) /\ order # << >>

SequenceInv ==
  TypeOK /\ RecordedTyped /\ OrderTyped /\ PendingInOrder /\ SimpleUntouched
=============================================================================
