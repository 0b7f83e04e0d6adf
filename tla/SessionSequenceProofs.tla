----------------------- MODULE SessionSequenceProofs -----------------------
(***************************************************************************)
(* Sessions and runs, however many: statements take effect in the order in  *)
(* which they were executed, and a failed run leaves no trace.              *)
(***************************************************************************)
EXTENDS SessionSequence, FiniteSetTheorems, TLAPS

-----------------------------------------------------------------------------
(* Induction: a set that holds 0 and the successor of what it holds.        *)
LEMMA InductionOnSet ==
  ASSUME NEW S, 0 \in S, \A n \in Nat : n \in S => n + 1 \in S
  PROVE  Nat \subseteq S
<1> DEFINE R == OpToRel(<, Nat)
<1>1. \A x, y \in Nat : y < x => <<y, x>> \in R
  BY DEF OpToRel
<1>2. IsWellFoundedOn(R, Nat)
  BY NatLessThanWellFounded, Zenon
<1> HIDE DEF R
<1> SUFFICES ASSUME Nat \ S # {}
             PROVE  FALSE
  OBVIOUS
<1>3. PICK x \in Nat \ S : \A y \in Nat \ S : ~(<<y, x>> \in R)
  <2>1. Nat \ S \subseteq Nat
    OBVIOUS
  <2>2. QED
    BY <1>2, <2>1, WFMin, Zenon
<1>4. x # 0 /\ x - 1 \in Nat /\ x - 1 < x
  OBVIOUS
<1>5. x - 1 \in S
  BY <1>1, <1>3, <1>4
<1>6. QED
  BY <1>3, <1>4, <1>5

-----------------------------------------------------------------------------
(* Carrying out a sequence of statements, as a recursive function of how    *)
(* many have been carried out: it exists, and what it says of the first k   *)
(* statements depends on those only.                                       *)

Carried(f, ss, env, n) ==
  f = [k \in 0..n |-> IF k = 0 THEN env ELSE Effect(ss[k], f[k - 1])]

Carrying(ss, env, n) == CHOOSE f : Carried(f, ss, env, n)

LEMMA CarriedUnfolds ==
  ASSUME NEW f, NEW ss, NEW env, NEW n \in Nat, Carried(f, ss, env, n)
  PROVE  f[0] = env /\ \A k \in 1..n : f[k] = Effect(ss[k], f[k - 1])
<1>1. f[0] = env
  <2>1. 0 \in 0..n
    OBVIOUS
  <2>2. QED
    BY <2>1 DEF Carried
<1>2. ASSUME NEW k \in 1..n
      PROVE  f[k] = Effect(ss[k], f[k - 1])
  <2>1. k \in 0..n /\ k # 0
    OBVIOUS
  <2>2. QED
    BY <2>1 DEF Carried
<1>3. QED
  BY <1>1, <1>2

LEMMA CarriedExists ==
  ASSUME NEW ss, NEW env, NEW n \in Nat
  PROVE  \E f : Carried(f, ss, env, n)
<1> DEFINE S == {k \in Nat : \E f : Carried(f, ss, env, k)}
<1>1. 0 \in S
  <2>1. Carried([i \in 0..0 |-> env], ss, env, 0)
    BY DEF Carried
  <2>2. QED
    BY <2>1
<1>2. ASSUME NEW k \in Nat, k \in S
      PROVE  k + 1 \in S
  <2>1. PICK f : Carried(f, ss, env, k)
    BY <1>2
  <2> DEFINE last == Effect(ss[k + 1], f[k])
             g == [i \in 0..(k + 1) |-> IF i = k + 1 THEN last ELSE f[i]]
  <2>2. g[0] = env
    BY <2>1, CarriedUnfolds
  <2>3. \A i \in 1..k : g[i] = Effect(ss[i], g[i - 1])
    BY <2>1, CarriedUnfolds
  <2>4. g[k + 1] = Effect(ss[k + 1], g[k])
    OBVIOUS
  <2>5. g = [i \in 0..(k + 1) |-> g[i]]
    OBVIOUS
  <2> HIDE DEF g, last
  <2>6. ASSUME NEW i \in 0..(k + 1)
        PROVE  g[i] = IF i = 0 THEN env ELSE Effect(ss[i], g[i - 1])
    <3>1. CASE i = 0
      BY <2>2, <3>1
    <3>2. CASE i \in 1..k
      BY <2>3, <3>2
    <3>3. CASE i = k + 1
      <4>1. i - 1 = k /\ i # 0
        BY <3>3
      <4>2. QED
        BY <2>4, <3>3, <4>1
    <3>4. QED
      BY <3>1, <3>2, <3>3
  <2>7. Carried(g, ss, env, k + 1)
    BY <2>5, <2>6 DEF Carried
  <2>8. QED
    BY <2>7
<1> HIDE DEF S
<1>3. Nat \subseteq S
  BY <1>1, <1>2, InductionOnSet
<1>4. QED
  BY <1>3 DEF S

LEMMA CarryingCarries ==
  ASSUME NEW ss, NEW env, NEW n \in Nat
  PROVE  Carried(Carrying(ss, env, n), ss, env, n)
BY CarriedExists DEF Carrying

LEMMA CarriedAgree ==
  ASSUME NEW f, NEW ss, NEW env, NEW n \in Nat, Carried(f, ss, env, n),
         NEW g, NEW tt, NEW m \in Nat, Carried(g, tt, env, m), n <= m,
         \A i \in 1..n : ss[i] = tt[i]
  PROVE  \A i \in 0..n : f[i] = g[i]
<1> DEFINE S == {i \in Nat : i <= n => f[i] = g[i]}
<1>1. 0 \in S
  BY CarriedUnfolds
<1>2. ASSUME NEW i \in Nat, i \in S
      PROVE  i + 1 \in S
  <2> SUFFICES ASSUME i + 1 <= n
               PROVE  f[i + 1] = g[i + 1]
    OBVIOUS
  <2>1. f[i] = g[i] /\ ss[i + 1] = tt[i + 1]
    BY <1>2
  <2>2. i + 1 \in 1..n /\ i + 1 \in 1..m /\ (i + 1) - 1 = i
    OBVIOUS
  <2>3. f[i + 1] = Effect(ss[i + 1], f[i])
    BY <2>2, CarriedUnfolds
  <2>4. g[i + 1] = Effect(tt[i + 1], g[i])
    BY <2>2, CarriedUnfolds
  <2>5. QED
    BY <2>1, <2>3, <2>4
<1> HIDE DEF S
<1>3. Nat \subseteq S
  BY <1>1, <1>2, InductionOnSet
<1>4. QED
  BY <1>3 DEF S

LEMMA EffectOfAllIs ==
  ASSUME NEW ss, NEW env
  PROVE  EffectOfAll(ss, env) = Carrying(ss, env, Len(ss))[Len(ss)]
BY DEF EffectOfAll, Carrying, Carried

(* Nothing to carry out changes nothing; one statement more is carried out  *)
(* last.                                                                   *)
LEMMA EffectOfNone ==
  ASSUME NEW env
  PROVE  EffectOfAll(<< >>, env) = env
<1>1. Carried(Carrying(<< >>, env, 0), << >>, env, 0)
  BY CarryingCarries
<1>2. Len(<< >>) = 0
  OBVIOUS
<1>3. QED
  BY <1>1, <1>2, EffectOfAllIs, CarriedUnfolds

LEMMA EffectOfOneMore ==
  ASSUME NEW S, NEW ss \in Seq(S), NEW statement \in S, NEW env
  PROVE  EffectOfAll(Append(ss, statement), env) = Effect(statement, EffectOfAll(ss, env))
<1> DEFINE n == Len(ss)
           tt == Append(ss, statement)
           f == Carrying(ss, env, n)
           g == Carrying(tt, env, n + 1)
<1>1. n \in Nat /\ Len(tt) = n + 1 /\ tt[n + 1] = statement
      /\ \A i \in 1..n : ss[i] = tt[i]
  OBVIOUS
<1>2. EffectOfAll(ss, env) = f[n] /\ EffectOfAll(tt, env) = g[n + 1]
  BY <1>1, EffectOfAllIs
<1> HIDE DEF n, tt
<1>3. Carried(f, ss, env, n) /\ Carried(g, tt, env, n + 1)
  BY <1>1, CarryingCarries
<1> HIDE DEF f, g
<1>4. f[n] = g[n]
  <2>1. n + 1 \in Nat /\ n <= n + 1
    BY <1>1
  <2>2. \A i \in 0..n : f[i] = g[i]
    BY <1>1, <1>3, <2>1, CarriedAgree
  <2>3. QED
    BY <1>1, <2>2
<1>5. g[n + 1] = Effect(tt[n + 1], g[n])
  <2>1. n + 1 \in Nat /\ n + 1 \in 1..(n + 1) /\ (n + 1) - 1 = n
    BY <1>1
  <2>2. \A k \in 1..(n + 1) : g[k] = Effect(tt[k], g[k - 1])
    BY <1>3, <2>1, CarriedUnfolds
  <2>3. g[n + 1] = Effect(tt[n + 1], g[(n + 1) - 1])
    BY <2>1, <2>2
  <2>4. QED
    BY <2>1, <2>3
<1>6. QED
  BY <1>1, <1>2, <1>4, <1>5 DEF tt

(* Carrying out statements neither adds a variable nor takes one away.      *)
LEMMA EffectKeepsVariables ==
  ASSUME NEW S, NEW ss \in Seq(S), NEW env
  PROVE  DOMAIN EffectOfAll(ss, env) = DOMAIN env
<1> DEFINE n == Len(ss)
           f == Carrying(ss, env, n)
           T == {k \in Nat : k <= n => DOMAIN f[k] = DOMAIN env}
<1>1. n \in Nat /\ EffectOfAll(ss, env) = f[n]
  BY EffectOfAllIs
<1> HIDE DEF n
<1>2. f[0] = env /\ \A k \in 1..n : f[k] = Effect(ss[k], f[k - 1])
  BY <1>1, CarryingCarries, CarriedUnfolds
<1> HIDE DEF f
<1>3. 0 \in T
  BY <1>2
<1>4. ASSUME NEW k \in Nat, k \in T
      PROVE  k + 1 \in T
  <2> SUFFICES ASSUME k + 1 <= n
               PROVE  DOMAIN f[k + 1] = DOMAIN env
    OBVIOUS
  <2>1. DOMAIN f[k] = DOMAIN env
    BY <1>1, <1>4
  <2>2. k + 1 \in 1..n /\ (k + 1) - 1 = k
    BY <1>1
  <2>3. f[k + 1] = Effect(ss[k + 1], f[k])
    BY <1>2, <2>2
  <2>4. QED
    BY <2>1, <2>3 DEF Effect
<1> HIDE DEF T
<1>5. Nat \subseteq T
  BY <1>3, <1>4, InductionOnSet
<1>6. QED
  BY <1>1, <1>5 DEF T

-----------------------------------------------------------------------------
(* The sequences of the state.                                              *)

LEMMA OrderGrows ==
  ASSUME NEW o, o \in Seq({o[k] : k \in DOMAIN o}), NEW env
  PROVE  LET p == Append(o, env) IN
           /\ p \in Seq({p[k] : k \in DOMAIN p}) /\ p # << >>
           /\ Len(p) = Len(o) + 1 /\ p[Len(p)] = env
           /\ \A k \in 1..Len(o) : p[k] = o[k]
           /\ Len(o) \in Nat
<1> DEFINE S == {o[k] : k \in DOMAIN o} \cup {env}
           p == Append(o, env)
           T == {p[k] : k \in DOMAIN p}
<1>1. o \in Seq(S) /\ env \in S
  OBVIOUS
<1> HIDE DEF S
<1>2. /\ p \in Seq(S) /\ Len(p) = Len(o) + 1 /\ p[Len(p)] = env /\ Len(o) \in Nat
      /\ \A k \in 1..Len(o) : p[k] = o[k]
  BY <1>1
<1>3. p \in Seq(T) /\ p # << >>
  <2> HIDE DEF p
  <2>1. \A k \in 1..Len(p) : p[k] \in T
    BY <1>2
  <2>2. QED
    BY <1>2, <2>1
<1>4. QED
  BY <1>2, <1>3

LEMMA OrderStarts ==
  ASSUME NEW env
  PROVE  LET p == <<env>> IN
           /\ p \in Seq({p[k] : k \in DOMAIN p}) /\ p # << >> /\ Len(p) = 1 /\ p[1] = env
OBVIOUS

LEMMA FramesPop ==
  ASSUME NEW S, NEW f \in Seq(S), f # << >>
  PROVE  LET o == SubSeq(f, 1, Len(f) - 1) IN
           /\ o \in Seq(S) /\ Len(o) = Len(f) - 1 /\ Len(f) \in Nat \ {0}
           /\ \A k \in 1..(Len(f) - 1) : o[k] = f[k]
           /\ f[Len(f)] \in S
           /\ o = << >> <=> Len(f) = 1
<1> DEFINE o == SubSeq(f, 1, Len(f) - 1)
<1>1. Len(f) \in Nat \ {0} /\ \A k \in 1..Len(f) : f[k] \in S
  OBVIOUS
<1>2. f[Len(f)] \in S
  BY <1>1
<1>3. o \in Seq(S) /\ Len(o) = Len(f) - 1
      /\ \A k \in 1..(Len(f) - 1) : o[k] = f[k]
  BY <1>1
<1> HIDE DEF o
<1>4. o = << >> <=> Len(f) = 1
  BY <1>1, <1>3
<1>5. QED
  BY <1>1, <1>2, <1>3, <1>4 DEF o

LEMMA FramesPush ==
  ASSUME NEW S, NEW f \in Seq(S), NEW s \in S
  PROVE  LET o == Append(f, s) IN
           /\ o \in Seq(S) /\ o # << >> /\ Len(o) = Len(f) + 1 /\ Len(f) \in Nat
           /\ o[Len(o)] = s /\ \A k \in 1..Len(f) : o[k] = f[k]
           /\ DOMAIN f = 1..Len(f) /\ DOMAIN o = 1..(Len(f) + 1)
OBVIOUS

LEMMA PendingTyped ==
  ASSUME SequenceInv
  PROVE  /\ Pending \in Seq(Statements)
         /\ current # Nothing => current \in Sessions /\ recorded[current] = Pending
         /\ ~isRecording => Pending = << >>
         /\ Nothing \notin made
<1>1. Nothing \notin made /\ (current # Nothing => current \in Sessions)
  BY NothingAssumption DEF SequenceInv, TypeOK
<1>2. CASE current = Nothing
  BY <1>1, <1>2 DEF Pending
<1>3. CASE current # Nothing
  <2>1. recorded[current] \in Seq(Statements) /\ Pending = recorded[current]
    BY <1>1, <1>3 DEF SequenceInv, RecordedTyped, Pending
  <2>2. recorded[current] # << >> => active[current]
    BY <1>1, <1>3 DEF SequenceInv, TypeOK
  <2>3. QED
    BY <1>1, <1>3, <2>1, <2>2 DEF isRecording
<1>4. QED
  BY <1>2, <1>3

-----------------------------------------------------------------------------
LEMMA SequenceInit ==
  ASSUME Init
  PROVE  SequenceInv
<1>1. TypeOK
  BY BoundsAssumption DEF Init, TypeOK, Fresh, Running
<1>2. RecordedTyped
  BY DEF Init, RecordedTyped
<1>3. OrderTyped /\ Len(order) = 1 /\ order[1] = Fresh
  BY OrderStarts DEF Init, OrderTyped
<1>4. Pending = << >>
  BY DEF Init, Pending
<1>5. PendingInOrder
  <2>1. Len(Pending) = 0 /\ EffectOfAll(Pending, cipher) = cipher
    BY <1>4, EffectOfNone
  <2>2. QED
    BY <1>3, <2>1 DEF Init, PendingInOrder, Latest
<1>6. SimpleUntouched
  BY DEF Init, SimpleUntouched
<1>7. QED
  BY <1>1, <1>2, <1>3, <1>5, <1>6 DEF SequenceInv

(* A statement is recorded, or takes effect at once after all that was      *)
(* recorded has been carried out.                                           *)
LEMMA ExecuteKeeps ==
  ASSUME SequenceInv, NEW statement \in Statements, Execute(statement)
  PROVE  SequenceInv'
<1>1. /\ ~throwing /\ steps < MaxStatements /\ steps' = steps + 1
      /\ order' = Append(order, Effect(statement, Latest)) /\ ended' = "no"
      /\ UNCHANGED <<made, current, active, frames, throwing, runs, before, simple, unordered>>
      /\ TypeOK /\ RecordedTyped /\ OrderTyped /\ PendingInOrder /\ SimpleUntouched
  BY DEF Execute, SequenceInv, runVars
<1>2. /\ Pending \in Seq(Statements)
      /\ current # Nothing => current \in Sessions /\ recorded[current] = Pending
      /\ ~isRecording => Pending = << >>
  BY PendingTyped
<1>3. /\ OrderTyped' /\ Len(order') = Len(order) + 1 /\ Len(order) \in Nat
      /\ order'[Len(order')] = Effect(statement, Latest)
      /\ \A k \in 1..Len(order) : order'[k] = order[k]
  BY <1>1, OrderGrows DEF OrderTyped
<1>4. /\ Running' = Running
      /\ isRecording => current # Nothing /\ current \in Sessions /\ active[current]
  BY <1>1, <1>2 DEF Running, isRecording
<1>5. steps' \in 0..MaxStatements
  BY <1>1, BoundsAssumption DEF TypeOK
<1>6. CASE isRecording
  <2>1. /\ recorded' = [recorded EXCEPT ![current] = Append(@, statement)]
        /\ cipher' = cipher /\ plain' = plain
    BY <1>6 DEF Execute, storeVars
  <2>2. TypeOK'
    <3>1. \A s \in Sessions : recorded'[s] # << >> => active[s]
      BY <1>1, <1>4, <1>6, <2>1 DEF TypeOK, RecordedTyped
    <3>2. QED
      BY <1>1, <1>4, <1>5, <2>1, <3>1 DEF TypeOK
  <2>3. RecordedTyped'
    BY <1>1, <1>2, <1>4, <1>6, <2>1 DEF RecordedTyped
  <2>4. Pending' = Append(Pending, statement) /\ Len(Pending') = Len(Pending) + 1
        /\ Len(Pending) \in Nat
    <3>1. current # Nothing
      BY <1>6 DEF isRecording
    <3>2. recorded'[current] = Append(recorded[current], statement)
      BY <1>1, <1>4, <1>6, <2>1 DEF RecordedTyped
    <3>3. Pending' = Append(Pending, statement)
      BY <1>1, <3>1, <3>2 DEF Pending
    <3>4. QED
      BY <1>2, <3>3
  <2>5. PendingInOrder'
    BY <1>1, <1>2, <1>3, <2>1, <2>4, EffectOfOneMore DEF PendingInOrder, Latest
  <2>6. SimpleUntouched'
    BY <1>1, <1>4, <2>1 DEF SimpleUntouched, Innermost
  <2>7. QED
    BY <1>3, <2>2, <2>3, <2>5, <2>6 DEF SequenceInv
<1>7. CASE ~isRecording
  <2>1. recorded' = recorded /\ cipher' = Effect(statement, cipher)
        /\ plain' = Mirrored(statement)
    BY <1>7 DEF Execute
  <2>2. DOMAIN cipher' = Variables /\ DOMAIN plain' = Variables
    BY <1>1, <2>1 DEF Mirrored, Effect, TypeOK
  <2>3. TypeOK'
    BY <1>1, <1>4, <1>5, <2>1, <2>2 DEF TypeOK
  <2>4. RecordedTyped'
    BY <1>1, <2>1 DEF RecordedTyped
  <2>5. Pending = << >> /\ Pending' = << >>
    BY <1>1, <1>2, <1>7, <2>1 DEF Pending
  <2>6. PendingInOrder'
    <3>1. Len(Pending') = 0 /\ EffectOfAll(Pending', cipher') = cipher'
      BY <2>5, EffectOfNone
    <3>2. ~unordered => Latest = cipher
      BY <1>1, <2>5, EffectOfNone DEF PendingInOrder
    <3>3. QED
      BY <1>1, <1>3, <2>1, <3>1, <3>2 DEF PendingInOrder, Latest
  <2>7. SimpleUntouched'
    <3>1. ~(simple /\ Running)
      <4>1. ASSUME simple, Running PROVE FALSE
        <5>1. current = Innermost /\ active[current] /\ frames # << >>
          BY <1>1, <4>1 DEF SimpleUntouched, Running
        <5>2. Innermost \in made
          BY <1>1, <5>1, FramesPop DEF TypeOK, Innermost
        <5>3. current # Nothing
          BY <5>1, <5>2, PendingTyped
        <5>4. QED
          BY <1>7, <5>1, <5>3 DEF isRecording
      <4>2. QED
        BY <4>1
    <3>2. QED
      BY <1>1, <1>4, <3>1 DEF SimpleUntouched
  <2>8. QED
    BY <1>3, <2>3, <2>4, <2>6, <2>7 DEF SequenceInv
<1>8. QED
  BY <1>6, <1>7

LEMMA StatementsExecuted ==
  ASSUME SequenceInv, AssignConstant \/ AssignCopy \/ AssignSum
  PROVE  SequenceInv'
<1>1. steps \in 0..MaxStatements
  BY DEF SequenceInv, TypeOK
<1>2. CASE AssignConstant
  <2>1. PICK x \in Variables : Execute(Constant(x, steps))
    BY <1>2 DEF AssignConstant
  <2>2. Constant(x, steps) \in Statements
    BY <1>1 DEF Constant, Statements
  <2>3. QED
    BY <2>1, <2>2, ExecuteKeeps
<1>3. CASE AssignCopy
  <2>1. PICK x \in Variables, y \in Variables : Execute(Copy(x, y))
    BY <1>3 DEF AssignCopy
  <2>2. Copy(x, y) \in Statements
    BY DEF Copy, Statements
  <2>3. QED
    BY <2>1, <2>2, ExecuteKeeps
<1>4. CASE AssignSum
  <2>1. PICK x \in Variables, y \in Variables : Execute(Sum(x, y))
    BY <1>4 DEF AssignSum
  <2>2. Sum(x, y) \in Statements
    BY DEF Sum, Statements
  <2>3. QED
    BY <2>1, <2>2, ExecuteKeeps
<1>5. QED
  BY <1>2, <1>3, <1>4

LEMMA BelongKeeps ==
  ASSUME SequenceInv, NEW x \in Variables, Belong(x)
  PROVE  SequenceInv'
<1>1. /\ unordered' /\ ended' = "no" /\ cipher' = [cipher EXCEPT ![x] = plain[x]]
      /\ UNCHANGED <<made, current, active, recorded, frames, throwing, plain, steps, runs,
                     order, before, simple>>
      /\ TypeOK /\ RecordedTyped /\ OrderTyped /\ SimpleUntouched
  BY DEF Belong, SequenceInv, runVars
<1>2. Running' = Running
  BY <1>1 DEF Running
<1>3. TypeOK'
  BY <1>1, <1>2 DEF TypeOK
<1>4. SimpleUntouched'
  BY <1>1, <1>2 DEF SimpleUntouched, Innermost
<1>5. QED
  BY <1>1, <1>3, <1>4 DEF SequenceInv, RecordedTyped, OrderTyped, PendingInOrder

(* The new session takes over only where nothing was pending, or the order  *)
(* is given up.                                                             *)
LEMMA CreateKeeps ==
  ASSUME SequenceInv, NEW s \in Sessions, Create(s)
  PROVE  SequenceInv'
<1>1. /\ made' = made \cup {s} /\ current' = s
      /\ unordered' = (unordered \/ (isRecording /\ recorded[current] # << >>))
      /\ simple' = (simple /\ ~Running)
      /\ UNCHANGED <<active, recorded, frames, throwing, plain, cipher, steps, runs, order,
                     before, ended>>
      /\ TypeOK /\ RecordedTyped /\ OrderTyped /\ PendingInOrder /\ SimpleUntouched
  BY DEF Create, SequenceInv, runVars, storeVars
<1>2. Running' = Running
  BY <1>1 DEF Running
<1>3. frames' \in Seq(made')
  BY <1>1 DEF TypeOK
<1>4. TypeOK'
  BY <1>1, <1>2, <1>3 DEF TypeOK
<1>5. RecordedTyped' /\ OrderTyped'
  BY <1>1 DEF RecordedTyped, OrderTyped
<1>6. PendingInOrder'
  <2> SUFFICES ASSUME ~unordered'
               PROVE  PendingInOrder'
    BY DEF PendingInOrder
  <2>1. ~unordered /\ ~(isRecording /\ recorded[current] # << >>)
    BY <1>1
  <2>2. Pending = << >>
    BY <2>1, PendingTyped DEF isRecording
  <2>3. \A t \in Sessions : recorded[t] = << >>
    BY <1>1, <2>1, <2>2, PendingTyped, NothingAssumption DEF PendingInOrder, Pending
  <2>4. Pending' = << >>
    BY <1>1, <2>3, NothingAssumption DEF Pending
  <2>5. Latest' = Latest
    BY <1>1 DEF Latest
  <2>6. QED
    BY <1>1, <2>1, <2>2, <2>3, <2>4, <2>5 DEF PendingInOrder
<1>7. SimpleUntouched'
  BY <1>1, <1>2 DEF SimpleUntouched
<1>8. QED
  BY <1>4, <1>5, <1>6, <1>7 DEF SequenceInv

LEMMA BeginKeeps ==
  ASSUME SequenceInv, NEW s \in Sessions, Begin(s)
  PROVE  SequenceInv'
<1>1. /\ ~throwing /\ s \in made /\ runs < MaxRuns /\ runs' = runs + 1
      /\ current' = (IF current = Nothing THEN s ELSE current)
      /\ active' = [active EXCEPT ![s] = TRUE]
      /\ frames' = Append(frames, s)
      /\ before' = (IF Running THEN before ELSE cipher)
      /\ simple' = (~Running /\ current' = s)
      /\ ended' = "no"
      /\ UNCHANGED <<made, recorded, throwing, plain, cipher, steps, order, unordered>>
      /\ TypeOK /\ RecordedTyped /\ OrderTyped /\ PendingInOrder /\ SimpleUntouched
  BY DEF Begin, SequenceInv, storeVars
<1>2. /\ frames' \in Seq(made) /\ frames' # << >> /\ Len(frames') = Len(frames) + 1
      /\ frames'[Len(frames')] = s /\ \A k \in 1..Len(frames) : frames'[k] = frames[k]
      /\ DOMAIN frames = 1..Len(frames) /\ DOMAIN frames' = 1..(Len(frames) + 1)
      /\ Len(frames) \in Nat
  BY <1>1, FramesPush DEF TypeOK
<1>3. runs' \in 0..MaxRuns
  BY <1>1, BoundsAssumption DEF TypeOK
<1>4. active' \in [Sessions -> BOOLEAN] /\ active'[s]
      /\ \A t \in Sessions : t # s => active'[t] = active[t]
  BY <1>1 DEF TypeOK
<1>5. \A t \in Sessions : active'[t] => \E k \in DOMAIN frames' : frames'[k] = t
  <2> SUFFICES ASSUME NEW t \in Sessions, active'[t]
               PROVE  \E k \in DOMAIN frames' : frames'[k] = t
    OBVIOUS
  <2>1. CASE t = s
    BY <1>2, <2>1
  <2>2. CASE t # s
    <3>1. PICK k \in DOMAIN frames : frames[k] = t
      BY <1>1, <1>4, <2>2 DEF TypeOK
    <3>2. k \in DOMAIN frames' /\ frames'[k] = t
      BY <1>2, <3>1
    <3>3. QED
      BY <3>2
  <2>3. QED
    BY <2>1, <2>2
<1>6. \A t \in Sessions : recorded'[t] # << >> => active'[t]
  BY <1>1, <1>4 DEF TypeOK
<1>7. TypeOK'
  BY <1>1, <1>2, <1>3, <1>4, <1>5, <1>6 DEF TypeOK
<1>8. RecordedTyped' /\ OrderTyped'
  BY <1>1 DEF RecordedTyped, OrderTyped
<1>9. PendingInOrder'
  <2> SUFFICES ASSUME ~unordered
               PROVE  PendingInOrder'
    BY <1>1 DEF PendingInOrder
  <2>1. Pending' = Pending /\ \A t \in Sessions : t # current' => recorded[t] = << >>
    <3>1. CASE current = Nothing
      <4>1. \A t \in Sessions : recorded[t] = << >>
        BY <1>1, <3>1, NothingAssumption DEF PendingInOrder
      <4>2. QED
        BY <1>1, <3>1, <4>1 DEF Pending
    <3>2. CASE current # Nothing
      BY <1>1, <3>2 DEF Pending, PendingInOrder
    <3>3. QED
      BY <3>1, <3>2
  <2>2. Latest' = Latest
    BY <1>1 DEF Latest
  <2>3. QED
    BY <1>1, <2>1, <2>2 DEF PendingInOrder
<1>10. SimpleUntouched'
  <2> SUFFICES ASSUME simple'
               PROVE  SimpleUntouched'
    BY DEF SimpleUntouched
  <2>1. ~Running /\ current' = s /\ before' = cipher
    BY <1>1
  <2>2. Len(frames') = 1 /\ current' = frames'[Len(frames')] /\ active'[current']
    BY <1>2, <1>4, <2>1 DEF Running
  <2>3. QED
    BY <1>1, <2>1, <2>2 DEF SimpleUntouched, Innermost
<1>11. QED
  BY <1>7, <1>8, <1>9, <1>10 DEF SequenceInv

LEMMA InnermostKnown ==
  ASSUME SequenceInv, Running
  PROVE  /\ Innermost \in made /\ Innermost \in Sessions
         /\ Outer \in Seq(made)
         /\ DOMAIN frames = 1..Len(frames) /\ DOMAIN Outer = 1..(Len(frames) - 1)
         /\ Len(frames) \in Nat \ {0}
         /\ \A k \in 1..(Len(frames) - 1) : Outer[k] = frames[k]
         /\ Outer = << >> <=> Len(frames) = 1
         /\ Innermost # Nothing
<1>1. frames \in Seq(made) /\ frames # << >> /\ made \subseteq Sessions
  BY DEF SequenceInv, TypeOK, Running
<1>2. /\ Outer \in Seq(made) /\ Len(Outer) = Len(frames) - 1
      /\ Len(frames) \in Nat \ {0}
      /\ \A k \in 1..(Len(frames) - 1) : Outer[k] = frames[k]
      /\ Innermost \in made
      /\ Outer = << >> <=> Len(frames) = 1
  BY <1>1, FramesPop DEF Innermost, Outer
<1>3. DOMAIN frames = 1..Len(frames)
  BY <1>1
<1>4. DOMAIN Outer = 1..(Len(frames) - 1)
  BY <1>2
<1>5. QED
  BY <1>1, <1>2, <1>3, <1>4, PendingTyped

(* However a run ends, its session is left inactive and empty, and the      *)
(* other active ones are still inside their own runs.                       *)
LEMMA EndRunKeeps ==
  ASSUME SequenceInv, Running, endRun(Innermost), frames' = Outer
  PROVE  /\ RecordedTyped' /\ active' \in [Sessions -> BOOLEAN]
         /\ ~active'[Innermost] /\ recorded'[Innermost] = << >>
         /\ \A s \in Sessions : s # Innermost =>
              active'[s] = active[s] /\ recorded'[s] = recorded[s]
         /\ \A s \in Sessions :
              /\ active'[s] => \E k \in DOMAIN frames' : frames'[k] = s
              /\ recorded'[s] # << >> => active'[s]
<1>1. /\ active' = [active EXCEPT ![Innermost] = FALSE]
      /\ recorded' = [recorded EXCEPT ![Innermost] = << >>]
      /\ TypeOK /\ RecordedTyped
  BY DEF endRun, SequenceInv
<1>2. Innermost \in Sessions
  BY InnermostKnown
<1>3. /\ active' \in [Sessions -> BOOLEAN]
      /\ ~active'[Innermost] /\ recorded'[Innermost] = << >>
      /\ \A s \in Sessions : s # Innermost =>
           active'[s] = active[s] /\ recorded'[s] = recorded[s]
  BY <1>1, <1>2 DEF TypeOK, RecordedTyped
<1>4. RecordedTyped'
  <2>1. << >> \in Seq(Statements)
    OBVIOUS
  <2>2. QED
    BY <1>1, <1>2, <2>1 DEF RecordedTyped
<1>5. ASSUME NEW s \in Sessions
      PROVE  /\ active'[s] => \E k \in DOMAIN frames' : frames'[k] = s
             /\ recorded'[s] # << >> => active'[s]
  <2>1. CASE s = Innermost
    BY <1>3, <2>1
  <2>2. CASE s # Innermost
    <3>1. active'[s] = active[s] /\ recorded'[s] = recorded[s]
      BY <1>3, <2>2
    <3>2. ASSUME active'[s]
          PROVE  \E k \in DOMAIN frames' : frames'[k] = s
      <4>1. PICK k \in DOMAIN frames : frames[k] = s
        BY <1>1, <3>1, <3>2 DEF TypeOK
      <4>2. k \in 1..(Len(frames) - 1)
        BY <2>2, <4>1, InnermostKnown DEF Innermost
      <4>3. k \in DOMAIN frames' /\ frames'[k] = s
        BY <4>1, <4>2, InnermostKnown
      <4>4. QED
        BY <4>3
    <3>3. recorded'[s] # << >> => active'[s]
      BY <1>1, <3>1 DEF TypeOK
    <3>4. QED
      BY <3>2, <3>3
  <2>3. QED
    BY <2>1, <2>2
<1>6. QED
  BY <1>3, <1>4, <1>5

(* Carrying out what the session recorded leaves what its statements would  *)
(* have left at once; a session that is not the current one recorded none.  *)
LEMMA ReturnKeeps ==
  ASSUME SequenceInv, Return
  PROVE  SequenceInv'
<1>1. /\ Running /\ ~throwing /\ endRun(Innermost) /\ frames' = Outer
      /\ cipher' = EffectOfAll(recorded[Innermost], cipher)
      /\ ended' = "returned"
      /\ UNCHANGED <<made, current, throwing, plain, steps, runs, order, before, simple, unordered>>
      /\ TypeOK /\ RecordedTyped /\ OrderTyped /\ PendingInOrder /\ SimpleUntouched
  BY DEF Return, SequenceInv
<1>2. /\ Innermost \in Sessions /\ Innermost # Nothing /\ Outer \in Seq(made)
      /\ Outer = << >> <=> Len(frames) = 1
  BY <1>1, InnermostKnown
<1>3. /\ RecordedTyped' /\ active' \in [Sessions -> BOOLEAN]
      /\ recorded'[Innermost] = << >>
      /\ \A s \in Sessions : s # Innermost => recorded'[s] = recorded[s]
      /\ \A s \in Sessions :
           /\ active'[s] => \E k \in DOMAIN frames' : frames'[k] = s
           /\ recorded'[s] # << >> => active'[s]
  BY <1>1, EndRunKeeps
<1>4. DOMAIN cipher' = Variables
  <2>1. recorded[Innermost] \in Seq(Statements)
    BY <1>1, <1>2 DEF RecordedTyped
  <2>2. DOMAIN EffectOfAll(recorded[Innermost], cipher) = DOMAIN cipher
    BY <2>1, EffectKeepsVariables
  <2>3. QED
    BY <1>1, <2>2 DEF TypeOK
<1>5. TypeOK'
  BY <1>1, <1>2, <1>3, <1>4 DEF TypeOK
<1>6. OrderTyped' /\ Latest' = Latest
  BY <1>1 DEF OrderTyped, Latest
<1>7. PendingInOrder'
  <2> SUFFICES ASSUME ~unordered
               PROVE  PendingInOrder'
    BY <1>1 DEF PendingInOrder
  <2>1. /\ \A s \in Sessions : s # current => recorded[s] = << >>
        /\ Len(Pending) < Len(order) /\ Len(order) \in Nat
        /\ cipher = order[Len(order) - Len(Pending)]
        /\ Latest = EffectOfAll(Pending, cipher)
    BY <1>1 DEF PendingInOrder, OrderTyped
  <2>2. \A s \in Sessions : s # current' => recorded'[s] = << >>
    BY <1>1, <1>3, <2>1
  <2>3. CASE current = Innermost
    <3>1. Pending = recorded[Innermost] /\ Pending' = << >>
      BY <1>1, <1>2, <1>3, <2>3 DEF Pending
    <3>2. cipher' = Latest
      BY <1>1, <2>1, <3>1
    <3>3. QED
      BY <1>1, <1>6, <2>1, <2>2, <3>1, <3>2, EffectOfNone DEF PendingInOrder, Latest
  <2>4. CASE current # Innermost
    <3>1. recorded[Innermost] = << >>
      BY <1>2, <2>1, <2>4
    <3>2. cipher' = cipher
      BY <1>1, <3>1, EffectOfNone
    <3>3. Pending' = Pending
      BY <1>1, <1>3, <2>4, PendingTyped DEF Pending
    <3>4. QED
      BY <1>1, <1>6, <2>1, <2>2, <3>2, <3>3 DEF PendingInOrder
  <2>5. QED
    BY <2>3, <2>4
<1>8. SimpleUntouched'
  <2>1. simple /\ Running => ~Running'
    BY <1>1, <1>2 DEF SimpleUntouched, Running
  <2>2. QED
    BY <1>1, <2>1 DEF SimpleUntouched
<1>9. QED
  BY <1>3, <1>5, <1>6, <1>7, <1>8 DEF SequenceInv

(* What a failed run recorded never happens; the statements executed start  *)
(* anew from the ciphertexts it left.                                       *)
LEMMA ThrowKeeps ==
  ASSUME SequenceInv, Throw
  PROVE  SequenceInv'
<1>1. /\ Running /\ endRun(Innermost) /\ frames' = Outer
      /\ throwing' = (Outer # << >>)
      /\ order' = (IF recorded[Innermost] = << >> THEN order ELSE <<cipher>>)
      /\ ended' = "threw"
      /\ UNCHANGED <<made, current, plain, cipher, steps, runs, before, simple, unordered>>
      /\ TypeOK /\ RecordedTyped /\ OrderTyped /\ PendingInOrder /\ SimpleUntouched
  BY DEF Throw, SequenceInv, storeVars
<1>2. /\ Innermost \in Sessions /\ Innermost # Nothing /\ Outer \in Seq(made)
      /\ Outer = << >> <=> Len(frames) = 1
  BY <1>1, InnermostKnown
<1>3. /\ RecordedTyped' /\ active' \in [Sessions -> BOOLEAN]
      /\ recorded'[Innermost] = << >>
      /\ \A s \in Sessions : s # Innermost => recorded'[s] = recorded[s]
      /\ \A s \in Sessions :
           /\ active'[s] => \E k \in DOMAIN frames' : frames'[k] = s
           /\ recorded'[s] # << >> => active'[s]
  BY <1>1, EndRunKeeps
<1>4. throwing' => Running'
  BY <1>1 DEF Running
<1>5. TypeOK'
  BY <1>1, <1>2, <1>3, <1>4 DEF TypeOK
<1>6. OrderTyped'
  <2>1. CASE order' = order
    BY <1>1, <2>1 DEF OrderTyped
  <2>2. CASE order' = <<cipher>>
    <3> DEFINE p == <<cipher>>
    <3>1. p \in Seq({p[k] : k \in DOMAIN p}) /\ p # << >>
      BY OrderStarts
    <3> HIDE DEF p
    <3>2. order' = p
      BY <2>2 DEF p
    <3>3. QED
      BY <3>1, <3>2 DEF OrderTyped
  <2>3. QED
    BY <1>1, <2>1, <2>2
<1>7. PendingInOrder'
  <2> SUFFICES ASSUME ~unordered
               PROVE  PendingInOrder'
    BY <1>1 DEF PendingInOrder
  <2>1. /\ \A s \in Sessions : s # current => recorded[s] = << >>
        /\ Len(Pending) < Len(order) /\ Len(order) \in Nat
        /\ cipher = order[Len(order) - Len(Pending)]
        /\ Latest = EffectOfAll(Pending, cipher)
    BY <1>1 DEF PendingInOrder, OrderTyped
  <2>2. \A s \in Sessions : s # current' => recorded'[s] = << >>
    BY <1>1, <1>3, <2>1
  <2>3. CASE recorded[Innermost] = << >>
    <3>1. order' = order
      BY <1>1, <2>3
    <3>2. Pending' = Pending
      BY <1>1, <1>3, <2>3, PendingTyped DEF Pending
    <3>3. QED
      BY <1>1, <2>1, <2>2, <3>1, <3>2 DEF PendingInOrder, Latest
  <2>4. CASE recorded[Innermost] # << >>
    <3>1. order' = <<cipher>> /\ Len(order') = 1 /\ order'[1] = cipher
      BY <1>1, <2>4
    <3>2. current = Innermost
      BY <1>2, <2>1, <2>4
    <3>3. Pending' = << >> /\ Len(Pending') = 0
      BY <1>1, <1>2, <1>3, <3>2 DEF Pending
    <3>4. EffectOfAll(Pending', cipher) = cipher
      BY <3>3, EffectOfNone
    <3>5. QED
      BY <1>1, <2>2, <3>1, <3>3, <3>4 DEF PendingInOrder, Latest
  <2>5. QED
    BY <2>3, <2>4
<1>8. SimpleUntouched'
  <2>1. simple /\ Running => ~Running'
    BY <1>1, <1>2 DEF SimpleUntouched, Running
  <2>2. simple /\ ~unordered => cipher = before
    BY <1>1 DEF SimpleUntouched
  <2>3. QED
    BY <1>1, <2>1, <2>2 DEF SimpleUntouched
<1>9. QED
  BY <1>3, <1>5, <1>6, <1>7, <1>8 DEF SequenceInv

LEMMA CatchKeeps ==
  ASSUME SequenceInv, Catch
  PROVE  SequenceInv'
<1>1. /\ throwing' = FALSE
      /\ UNCHANGED <<made, current, active, recorded, frames, plain, cipher, steps, runs,
                     order, before, simple, ended, unordered>>
      /\ TypeOK /\ RecordedTyped /\ OrderTyped /\ PendingInOrder /\ SimpleUntouched
  BY DEF Catch, SequenceInv, storeVars, ghostVars
<1>2. TypeOK' /\ RecordedTyped' /\ OrderTyped'
  BY <1>1 DEF TypeOK, RecordedTyped, OrderTyped
<1>3. PendingInOrder'
  BY <1>1 DEF PendingInOrder, Pending, Latest
<1>4. SimpleUntouched'
  BY <1>1 DEF SimpleUntouched, Innermost, Running
<1>5. QED
  BY <1>2, <1>3, <1>4 DEF SequenceInv

LEMMA SequenceStep ==
  ASSUME SequenceInv, [Next]_vars
  PROVE  SequenceInv'
<1>1. CASE AssignConstant \/ AssignCopy \/ AssignSum
  BY <1>1, StatementsExecuted
<1>2. CASE \E x \in Variables : Belong(x)
  BY <1>2, BelongKeeps
<1>3. CASE \E s \in Sessions : Create(s) \/ Begin(s)
  BY <1>3, CreateKeeps, BeginKeeps
<1>4. CASE Return \/ Throw \/ Catch
  BY <1>4, ReturnKeeps, ThrowKeeps, CatchKeeps
<1>5. CASE UNCHANGED vars
  <2>1. UNCHANGED <<made, current, active, recorded, frames, throwing, plain, cipher, steps,
                    runs, order, before, simple, ended, unordered>>
    BY <1>5 DEF vars, runVars, storeVars, ghostVars
  <2>2. TypeOK' /\ RecordedTyped' /\ OrderTyped' /\ PendingInOrder' /\ SimpleUntouched'
    BY <2>1 DEF SequenceInv, TypeOK, RecordedTyped, OrderTyped, PendingInOrder, Pending,
                SimpleUntouched, Latest, Running, Innermost
  <2>3. QED
    BY <2>2 DEF SequenceInv
<1>6. QED
  BY <1>1, <1>2, <1>3, <1>4, <1>5 DEF Next

-----------------------------------------------------------------------------
(* The recording in progress, and nothing else, separates the ciphertexts   *)
(* from the values of the statements executed (Session.tpp, and             *)
(* Session.h:128-141 for how a run leaves its session).                     *)
THEOREM SequenceInductive == Spec => []SequenceInv
<1>1. Init => SequenceInv
  BY SequenceInit
<1>2. SequenceInv /\ [Next]_vars => SequenceInv'
  BY SequenceStep
<1>3. QED
  BY <1>1, <1>2, PTL DEF Spec

(* Every variable keeps its type; a session records only inside a call of   *)
(* its own run(), and is inactive and empty after it (Session.h:128-141).   *)
THEOREM SequenceTypeCorrect == Spec => []TypeOK
<1>1. SequenceInv => TypeOK
  BY DEF SequenceInv
<1>2. QED
  BY <1>1, SequenceInductive, PTL

(* "Every recorded operation must observe earlier writes to the same        *)
(* variable" (Session.h:86-88): with any number of sessions, variables,     *)
(* statements and nested runs, the ciphertexts are those after a prefix of  *)
(* the statements executed, and after all of them outside every run.        *)
THEOREM EffectsOrdered == Spec => []EffectsInOrder
<1>1. SequenceInv => EffectsInOrder
  <2> SUFFICES ASSUME SequenceInv, ~unordered
               PROVE  /\ \E k \in DOMAIN order : cipher = order[k]
                      /\ ~Running => cipher = Latest
    BY DEF EffectsInOrder
  <2>1. /\ Len(Pending) < Len(order)
        /\ cipher = order[Len(order) - Len(Pending)]
        /\ Latest = EffectOfAll(Pending, cipher)
        /\ Len(order) \in Nat /\ DOMAIN order = 1..Len(order)
    BY DEF SequenceInv, PendingInOrder, OrderTyped
  <2>2. Len(Pending) \in Nat
    BY PendingTyped
  <2>3. \E k \in DOMAIN order : cipher = order[k]
    <3>1. Len(order) - Len(Pending) \in DOMAIN order
      BY <2>1, <2>2
    <3>2. QED
      BY <2>1, <3>1
  <2>4. ASSUME ~Running
        PROVE  cipher = Latest
    <3>1. frames = << >> /\ DOMAIN frames = {}
      BY <2>4 DEF Running
    <3>2. ~isRecording
      BY <3>1, PendingTyped DEF isRecording, SequenceInv, TypeOK
    <3>3. Pending = << >>
      BY <3>2, PendingTyped
    <3>4. QED
      BY <2>1, <3>3, EffectOfNone
  <2>5. QED
    BY <2>3, <2>4
<1>2. QED
  BY <1>1, SequenceInductive, PTL

(* A failed run of the current session, with nothing nested in it, leaves   *)
(* every ciphertext as it was when it began (SessionTest.cpp:180,           *)
(* Session.h:128-141): what it recorded is dropped whole.                   *)
THEOREM FailedRunTraceless == Spec => []FailedRunChangesNothing
<1>1. SequenceInv => FailedRunChangesNothing
  BY DEF SequenceInv, SimpleUntouched, FailedRunChangesNothing
<1>2. QED
  BY <1>1, SequenceInductive, PTL
=============================================================================
