------------------------ MODULE SessionMeaningProofs ------------------------
(***************************************************************************)
(* What a run computes: the graph, the lowered program and the evaluation   *)
(* of it mean what the statements of the lambda mean, and a run that        *)
(* succeeds leaves in every caller variable what computing each statement   *)
(* at once would have.  MeaningInv is inductive, given RunInv.              *)
(***************************************************************************)
EXTENDS SessionMeaning, SessionRunProofs

-----------------------------------------------------------------------------
(* What a recording means.                                                  *)

Initially == [e \in Entities |-> <<e>>]

Stepped(op, env) == [env EXCEPT ![Target(op)] = Written(op, env)]

Replays(rec, n, f) ==
  f = [k \in 0..n |-> IF k = 0 THEN Initially ELSE Stepped(rec[k], f[k - 1])]

Replay(rec) == CHOOSE f : Replays(rec, Len(rec), f)

(* After is defined by recursion; the function it asks for exists.          *)
LEMMA ReplayExists ==
  ASSUME NEW rec, NEW n \in Nat
  PROVE  \E f : Replays(rec, n, f)
<1> DEFINE S == {m \in Nat : \E f : Replays(rec, m, f)}
<1>1. 0 \in S
  <2> DEFINE g == [k \in 0..0 |-> Initially]
  <2>1. Replays(rec, 0, g)
    <3>1. \A k \in 0..0 : k = 0
      OBVIOUS
    <3>2. QED
      BY <3>1 DEF Replays
  <2> HIDE DEF g
  <2>2. QED
    BY <2>1
<1>2. ASSUME NEW m \in Nat, m \in S
      PROVE  m + 1 \in S
  <2>1. PICK f : Replays(rec, m, f)
    BY <1>2
  <2> DEFINE g == [k \in 0..(m + 1) |->
                     IF k = m + 1 THEN Stepped(rec[m + 1], f[m]) ELSE f[k]]
  <2>2. /\ DOMAIN f = 0..m /\ f[0] = Initially
        /\ \A k \in 1..m : f[k] = Stepped(rec[k], f[k - 1])
    <3>1. \A k \in 0..m : f[k] = IF k = 0 THEN Initially ELSE Stepped(rec[k], f[k - 1])
      BY <2>1 DEF Replays
    <3>2. DOMAIN f = 0..m
      BY <2>1 DEF Replays
    <3>3. QED
      BY <3>1, <3>2
  <2>3. \A k \in 0..(m + 1) :
          g[k] = IF k = 0 THEN Initially ELSE Stepped(rec[k], g[k - 1])
    <3> TAKE k \in 0..(m + 1)
    <3>1. CASE k = 0
      BY <2>2, <3>1
    <3>2. CASE k \in 1..m
      <4>1. g[k] = f[k] /\ g[k - 1] = f[k - 1] /\ k # 0
        BY <3>2
      <4>2. QED
        BY <2>2, <3>2, <4>1
    <3>3. CASE k = m + 1
      <4>1. g[k] = Stepped(rec[k], f[m]) /\ g[k - 1] = f[m] /\ k # 0
        BY <3>3
      <4>2. QED
        BY <4>1
    <3>4. QED
      BY <3>1, <3>2, <3>3
  <2>4. g = [k \in 0..(m + 1) |-> g[k]]
    OBVIOUS
  <2> HIDE DEF g
  <2>5. Replays(rec, m + 1, g)
    BY <2>3, <2>4, Zenon DEF Replays
  <2>6. QED
    BY <2>5
<1>3. Nat \subseteq S
  <2> HIDE DEF S
  <2>1. \A m \in Nat : m \in S => m + 1 \in S
    BY <1>2
  <2>2. QED
    BY <1>1, <2>1, InductionOnSet
<1>4. QED
  BY <1>3

LEMMA ReplaySteps ==
  ASSUME NEW rec, NEW n \in Nat, NEW f, Replays(rec, n, f)
  PROVE  /\ f[0] = Initially
         /\ \A k \in 1..n : f[k] = Stepped(rec[k], f[k - 1])
         /\ \A k \in 0..n : DOMAIN f[k] = Entities
<1>1. \A k \in 0..n : f[k] = IF k = 0 THEN Initially ELSE Stepped(rec[k], f[k - 1])
  BY DEF Replays
<1>2. f[0] = Initially /\ \A k \in 1..n : f[k] = Stepped(rec[k], f[k - 1])
  BY <1>1
<1> DEFINE S == {k \in Nat : k <= n => DOMAIN f[k] = Entities}
<1>3. 0 \in S
  BY <1>2 DEF Initially
<1>4. ASSUME NEW k \in Nat, k \in S
      PROVE  k + 1 \in S
  <2> SUFFICES ASSUME k + 1 <= n
               PROVE  DOMAIN f[k + 1] = Entities
    OBVIOUS
  <2>1. k + 1 \in 1..n /\ (k + 1) - 1 = k /\ DOMAIN f[k] = Entities
    BY <1>4
  <2>2. f[k + 1] = Stepped(rec[k + 1], f[k])
    BY <1>2, <2>1
  <2>3. QED
    BY <2>1, <2>2 DEF Stepped
<1>5. Nat \subseteq S
  <2> HIDE DEF S
  <2>1. \A m \in Nat : m \in S => m + 1 \in S
    BY <1>4
  <2>2. QED
    BY <1>3, <2>1, InductionOnSet
<1>6. QED
  BY <1>2, <1>5

(* A longer recording starts as the shorter one.                            *)
LEMMA ReplayPrefix ==
  ASSUME NEW rec, NEW m \in Nat, NEW f, Replays(rec, m, f),
         NEW ext, NEW n \in Nat, NEW g, Replays(ext, n, g),
         m <= n, \A k \in 1..m : ext[k] = rec[k]
  PROVE  \A k \in 0..m : g[k] = f[k]
<1>1. f[0] = g[0] /\ \A k \in 1..m : f[k] = Stepped(rec[k], f[k - 1])
                  /\ g[k] = Stepped(rec[k], g[k - 1])
  BY ReplaySteps
<1> DEFINE S == {k \in Nat : k <= m => g[k] = f[k]}
<1>2. 0 \in S
  BY <1>1
<1>3. \A k \in Nat : k \in S => k + 1 \in S
  <2> SUFFICES ASSUME NEW k \in Nat, k \in S, k + 1 <= m
               PROVE  g[k + 1] = f[k + 1]
    OBVIOUS
  <2>1. k + 1 \in 1..m /\ (k + 1) - 1 = k /\ g[k] = f[k]
    OBVIOUS
  <2>2. QED
    BY <1>1, <2>1
<1>4. Nat \subseteq S
  <2> HIDE DEF S
  <2>1. QED
    BY <1>2, <1>3, InductionOnSet
<1>5. QED
  BY <1>4

LEMMA ReplayReplays ==
  ASSUME NEW rec, Len(rec) \in Nat
  PROVE  Replays(rec, Len(rec), Replay(rec))
BY ReplayExists DEF Replay

(* One operation changes what its target holds and nothing else.            *)
OneWritten(rec, a, n) ==
  \A k \in 1..n :
    /\ Target(rec[k]) \in Entities
    /\ a[k][Target(rec[k])] = Written(rec[k], a[k - 1])
    /\ \A e \in Entities : e # Target(rec[k]) => a[k][e] = a[k - 1][e]

LEMMA AfterFacts ==
  ASSUME recording \in Seq(Recordable)
  PROVE  /\ Replays(recording, Len(recording), After)
         /\ Len(recording) \in Nat /\ DOMAIN recording = 1..Len(recording)
         /\ \A e \in Entities : After[0][e] = <<e>>
         /\ OneWritten(recording, After, Len(recording))
<1>1. Len(recording) \in Nat /\ DOMAIN recording = 1..Len(recording)
  OBVIOUS
<1>2. After = Replay(recording)
  BY Zenon DEF After, Replay, Replays, Stepped, Initially
<1>3. Replays(recording, Len(recording), After)
  BY <1>1, <1>2, ReplayReplays
<1>4. /\ After[0] = Initially
      /\ \A k \in 1..Len(recording) : After[k] = Stepped(recording[k], After[k - 1])
      /\ \A k \in 0..Len(recording) : DOMAIN After[k] = Entities
  BY <1>1, <1>3, ReplaySteps
<1>5. ASSUME NEW k \in 1..Len(recording)
      PROVE  /\ Target(recording[k]) \in Entities
             /\ After[k][Target(recording[k])] = Written(recording[k], After[k - 1])
             /\ \A e \in Entities :
                  e # Target(recording[k]) => After[k][e] = After[k - 1][e]
  <2>1. recording[k] \in Recordable /\ k - 1 \in 0..Len(recording)
    BY <1>1
  <2>2. Target(recording[k]) \in Entities
    BY <2>1, MentionsAreEntities DEF Mentions
  <2>3. DOMAIN After[k - 1] = Entities
    BY <1>4, <2>1
  <2>4. After[k] = Stepped(recording[k], After[k - 1])
    BY <1>4
  <2>5. QED
    BY <2>2, <2>3, <2>4 DEF Stepped
<1>6. \A e \in Entities : After[0][e] = <<e>>
  BY <1>4 DEF Initially
<1>7. QED
  BY <1>1, <1>3, <1>5, <1>6 DEF OneWritten

(* The same of the next state.                                              *)
LEMMA AfterExtends ==
  ASSUME recording \in Seq(Recordable), recording' \in Seq(Recordable),
         Len(recording) <= Len(recording'),
         \A k \in 1..Len(recording) : recording'[k] = recording[k]
  PROVE  /\ \A k \in 0..Len(recording) : After'[k] = After[k]
         /\ OneWritten(recording', After', Len(recording'))
<1>1. /\ Replays(recording, Len(recording), After) /\ Len(recording) \in Nat
      /\ Len(recording') \in Nat
  BY AfterFacts
<1>2. PICK rec, a : rec = recording' /\ a = After'
  OBVIOUS
<1>3. a = Replay(rec)
  BY <1>2, Zenon DEF After, Replay, Replays, Stepped, Initially
<1>4. Replays(rec, Len(rec), a)
  BY <1>1, <1>2, <1>3, ReplayReplays
<1>5. \A k \in 0..Len(recording) : a[k] = After[k]
  BY <1>1, <1>2, <1>4, ReplayPrefix
<1>6. /\ \A k \in 1..Len(rec) : a[k] = Stepped(rec[k], a[k - 1])
      /\ \A k \in 0..Len(rec) : DOMAIN a[k] = Entities
  BY <1>1, <1>2, <1>4, ReplaySteps
<1>7. OneWritten(rec, a, Len(rec))
  <2> SUFFICES ASSUME NEW k \in 1..Len(rec)
               PROVE  /\ Target(rec[k]) \in Entities
                      /\ a[k][Target(rec[k])] = Written(rec[k], a[k - 1])
                      /\ \A e \in Entities : e # Target(rec[k]) => a[k][e] = a[k - 1][e]
    BY DEF OneWritten
  <2>1. rec[k] \in Recordable /\ k - 1 \in 0..Len(rec)
    BY <1>1, <1>2
  <2>2. Target(rec[k]) \in Entities
    BY <2>1, MentionsAreEntities DEF Mentions
  <2>3. DOMAIN a[k - 1] = Entities
    BY <1>6, <2>1
  <2>4. a[k] = Stepped(rec[k], a[k - 1])
    BY <1>6
  <2>5. QED
    BY <2>2, <2>3, <2>4 DEF Stepped
<1>8. QED
  BY <1>2, <1>5, <1>7

(* What nothing has written is as it was.                                   *)
LEMMA UnwrittenAfter ==
  ASSUME recording \in Seq(Recordable), NEW e \in Entities, NEW n \in 0..Len(recording),
         ~WrittenBefore(e, n)
  PROVE  After[n][e] = <<e>>
<1>1. /\ Len(recording) \in Nat /\ After[0][e] = <<e>>
      /\ OneWritten(recording, After, Len(recording))
  BY AfterFacts
<1> DEFINE S == {k \in Nat : k <= n => After[k][e] = <<e>>}
<1>2. 0 \in S
  BY <1>1
<1>3. \A k \in Nat : k \in S => k + 1 \in S
  <2> SUFFICES ASSUME NEW k \in Nat, k \in S, k + 1 <= n
               PROVE  After[k + 1][e] = <<e>>
    OBVIOUS
  <2>1. k + 1 \in 1..n /\ k + 1 \in 1..Len(recording) /\ (k + 1) - 1 = k
    BY <1>1
  <2>2. Target(recording[k + 1]) # e
    BY <2>1 DEF WrittenBefore, WrittenIn
  <2>3. After[k + 1][e] = After[k][e]
    BY <1>1, <2>1, <2>2 DEF OneWritten
  <2>4. QED
    BY <1>1, <2>1, <2>3
<1>4. Nat \subseteq S
  <2> HIDE DEF S
  <2>1. QED
    BY <1>2, <1>3, InductionOnSet
<1>5. QED
  BY <1>1, <1>4

-----------------------------------------------------------------------------
(* What the names of the lambda stand for.                                  *)

LEMMA CanonicalFits ==
  ASSUME RunInv, ResultsFirst, NEW n \in live
  PROVE  LET c == Canonical(map, n) IN
           /\ c \in Names \cup DOMAIN temps /\ c \in Entities
           /\ c \in DOMAIN temps => ResultIn(temps, c)
           /\ ResultIn(temps, c) => WrittenBefore(c, Len(recording))
           /\ ~ScalarIn(temps, c)
<1>1. /\ Registered(map, live, Len(temps)) /\ DOMAIN temps = 1..Len(temps)
      /\ n \in Names /\ n \in Entities
  BY UsableNames, EntityFacts DEF RunInv
<1>2. PICK c : c = Canonical(map, n)
  OBVIOUS
<1>3. c = n \/ (c = map[n] /\ c \in DOMAIN temps)
  BY <1>1, <1>2 DEF Registered, Canonical
<1>4. Len(temps) \in Nat /\ Len(temps) <= MaxTemps
  BY UsableNames
<1>5. n \notin DOMAIN temps /\ DOMAIN temps \subseteq Entities
  <2>1. \A k \in 1..Len(temps) : k \in 1..MaxTemps
    BY <1>4, EntityFacts
  <2>2. QED
    BY <1>1, <2>1, EntityFacts
<1>6. c \in DOMAIN temps => ResultIn(temps, c)
  BY <1>1, <1>3, <1>5 DEF ResultsFirst, NamesFit
<1>7. ResultIn(temps, c) => WrittenBefore(c, Len(recording))
  BY DEF ResultsFirst, ResultIn, WrittenBefore
<1>8. ~ScalarIn(temps, c)
  BY <1>6 DEF ScalarIn, ResultIn
<1>9. QED
  BY <1>1, <1>2, <1>3, <1>5, <1>6, <1>7, <1>8

(* What the recording does not mention is as it was.                        *)
LEMMA UnmentionedAfter ==
  ASSUME RunInv, ResultsFirst, NEW e \in Entities,
         \/ e \notin Names /\ e \notin DOMAIN temps
         \/ ~poisoned /\ map[e] # e
  PROVE  After[Len(recording)][e] = <<e>>
<1>1. recording \in Seq(Recordable)
  BY DEF RunInv, RecordedTyped
<1>2. Len(recording) \in Nat /\ DOMAIN recording = 1..Len(recording)
  BY <1>1
<1>3. ASSUME NEW k \in 1..Len(recording)
      PROVE  Target(recording[k]) # e
  <2>1. CASE e \notin Names /\ e \notin DOMAIN temps
    <3>1. Mentions(recording[k]) \subseteq Names \cup DOMAIN temps
      BY <1>2 DEF ResultsFirst, OperationFits
    <3>2. QED
      BY <2>1, <3>1 DEF Mentions
  <2>2. CASE ~poisoned /\ map[e] # e
    <3>1. \A f \in Mentions(recording[k]) : map[f] = f
      BY <1>2, <2>2 DEF RunInv, RecordedCanonical
    <3>2. QED
      BY <2>2, <3>1 DEF Mentions
  <2>3. QED
    BY <2>1, <2>2
<1>4. ~WrittenBefore(e, Len(recording))
  BY <1>3 DEF WrittenBefore, WrittenIn
<1>5. QED
  BY <1>1, <1>2, <1>4, UnwrittenAfter

(* The recording and the objects of its expressions only grow.              *)
LEMMA ResultsStill ==
  ASSUME RunInv, RunInv', ResultsFirst,
         Len(temps) <= Len(temps'), \A k \in 1..Len(temps) : temps'[k] = temps[k],
         Len(recording) <= Len(recording'),
         \A k \in 1..Len(recording) : recording'[k] = recording[k],
         \A k \in (Len(recording) + 1)..Len(recording') : OperationFits(temps', recording', k),
         \A e \in (Len(temps) + 1)..Len(temps') :
           ResultIn(temps', e) => WrittenIn(recording', e, Len(recording')),
         \A n \in Names : map'[n] \in {map[n], n, Nothing} \/ ResultIn(temps', map'[n]),
         \A c \in Callers : map'[c] \in {map[c], c, Nothing}
  PROVE  ResultsFirst'
<1>1. /\ temps \in Seq(TempKinds) /\ temps' \in Seq(TempKinds)
      /\ recording \in Seq(Recordable) /\ recording' \in Seq(Recordable)
      /\ Len(temps') <= MaxTemps
      /\ Registered(map, live, Len(temps))
  BY DEF RunInv, RecordedTyped
<1>2. /\ Len(temps) \in Nat /\ Len(temps') \in Nat
      /\ DOMAIN temps = 1..Len(temps) /\ DOMAIN temps' = 1..Len(temps')
      /\ Len(recording) \in Nat /\ Len(recording') \in Nat
      /\ DOMAIN recording = 1..Len(recording) /\ DOMAIN recording' = 1..Len(recording')
  BY <1>1
<1>3. \A n \in Names : n \notin DOMAIN temps'
  <2>1. \A k \in 1..Len(temps') : k \in 1..MaxTemps
    BY <1>1, <1>2, EntityFacts
  <2>2. QED
    BY <1>2, <2>1, EntityFacts
<1>4. /\ DOMAIN temps \subseteq DOMAIN temps'
      /\ \A e \in Names \cup DOMAIN temps :
           /\ ResultIn(temps', e) => ResultIn(temps, e)
           /\ ScalarIn(temps', e) => ScalarIn(temps, e)
      /\ \A e \in DOMAIN temps : ResultIn(temps, e) => ResultIn(temps', e)
  BY <1>2, <1>3 DEF ResultIn, ScalarIn
<1>5. \A e : \A n \in 0..Len(recording) : WrittenIn(recording', e, n) <=> WrittenIn(recording, e, n)
  <2> TAKE e
  <2> TAKE n \in 0..Len(recording)
  <2>1. \A j \in 1..n : recording'[j] = recording[j]
    BY <1>2
  <2>2. QED
    BY <2>1 DEF WrittenIn
<1>6. ASSUME NEW k \in 1..Len(recording)
      PROVE  OperationFits(temps', recording', k)
  <2>1. OperationFits(temps, recording, k)
    BY <1>2 DEF ResultsFirst
  <2>2. PICK op : op = recording[k] /\ op = recording'[k]
    OBVIOUS
  <2>3. /\ Mentions(op) \subseteq Names \cup DOMAIN temps
        /\ ~ScalarIn(temps, Target(op)) /\ ~ScalarIn(temps, op.operand1)
        /\ op.type = "Assignment" => ~ScalarIn(temps, op.operand2)
        /\ \A e \in {op.operand1, op.operand2} :
             ResultIn(temps, e) => WrittenIn(recording, e, k - 1)
    BY <2>1, <2>2 DEF OperationFits
  <2>4. {op.operand1, op.operand2, Target(op)} \subseteq Names \cup DOMAIN temps
    BY <2>3 DEF Mentions
  <2>5. k - 1 \in 0..Len(recording)
    BY <1>2
  <2>6. /\ Mentions(op) \subseteq Names \cup DOMAIN temps'
        /\ ~ScalarIn(temps', Target(op)) /\ ~ScalarIn(temps', op.operand1)
        /\ op.type = "Assignment" => ~ScalarIn(temps', op.operand2)
        /\ \A e \in {op.operand1, op.operand2} :
             ResultIn(temps', e) => WrittenIn(recording', e, k - 1)
    BY <1>4, <1>5, <2>3, <2>4, <2>5
  <2>7. QED
    BY <2>2, <2>6 DEF OperationFits
<1>7. \A k \in DOMAIN recording' : OperationFits(temps', recording', k)
  BY <1>2, <1>6
<1>8. \A e \in DOMAIN temps' :
        ResultIn(temps', e) => WrittenIn(recording', e, Len(recording'))
  <2> TAKE e \in DOMAIN temps'
  <2>1. CASE e \in 1..Len(temps)
    <3>1. ResultIn(temps', e) => WrittenIn(recording, e, Len(recording))
      BY <1>2, <1>4, <2>1 DEF ResultsFirst
    <3>2. WrittenIn(recording, e, Len(recording)) => WrittenIn(recording', e, Len(recording))
      BY <1>2, <1>5
    <3>3. WrittenIn(recording', e, Len(recording)) => WrittenIn(recording', e, Len(recording'))
      BY <1>2 DEF WrittenIn
    <3>4. QED
      BY <3>1, <3>2, <3>3
  <2>2. CASE e \in (Len(temps) + 1)..Len(temps')
    BY <2>2
  <2>3. QED
    BY <1>2, <2>1, <2>2
<1>9. NamesFit(temps', map')
  <2>1. \A n \in Names : map'[n] \in DOMAIN temps' => ResultIn(temps', map'[n])
    <3> TAKE n \in Names
    <3> HAVE map'[n] \in DOMAIN temps'
    <3>1. Nothing \notin DOMAIN temps'
      <4>1. \A k \in 1..Len(temps') : k \in 1..MaxTemps
        BY <1>1, <1>2, EntityFacts
      <4>2. QED
        BY <1>2, <4>1, EntityFacts
    <3>2. CASE map'[n] = map[n]
      <4>1. map[n] # Nothing /\ map[n] # n
        BY <1>3, <3>1, <3>2
      <4>2. map[n] \in DOMAIN temps
        BY <1>1, <1>2, <4>1, EntityFacts DEF Registered
      <4>3. QED
        BY <1>4, <3>2, <4>2 DEF ResultsFirst, NamesFit
    <3>3. QED
      BY <1>3, <3>1, <3>2
  <2>2. \A c \in Callers : map'[c] \in {c, Nothing}
    BY DEF ResultsFirst, NamesFit
  <2>3. QED
    BY <2>1, <2>2 DEF NamesFit
<1>10. QED
  BY <1>7, <1>8, <1>9 DEF ResultsFirst

(* A statement encrypts at most one entity, one nobody read yet.            *)
Encrypting ==
  \/ /\ \A k \in 1..Len(temps) : cipher'[k] = cipher[k]
     /\ blocks' = blocks
     /\ \A k \in (Len(temps) + 1)..Len(temps') : temps'[k] = "result"
  \/ \E k \in Entities :
       /\ k \notin Callers /\ k \notin DOMAIN temps
       /\ cipher' = [cipher EXCEPT ![k] = Len(blocks) + 1]
       /\ blocks' = Append(blocks, Block(Len(blocks) + 1, "ours", <<k>>))
       /\ \A l \in (Len(temps) + 1)..Len(temps') : l = k \/ temps'[l] = "result"

LEMMA SourcesStill ==
  ASSUME RunInv, RunInv', SourcesIntact, phase = "record",
         phase' \in {"record", "optimize", "throw"},
         phase' = "optimize" => live' \subseteq Callers,
         start' = start, \A c \in (live' \cap Callers) \ moved' :
                           c \in live \ moved /\ cipher'[c] = cipher[c],
         ~poisoned' => ~poisoned /\ moved' \cap Callers \subseteq moved,
         Len(temps) <= Len(temps'), \A k \in 1..Len(temps) : temps'[k] = temps[k],
         Encrypting
  PROVE  SourcesIntact'
<1>1. /\ temps \in Seq(TempKinds) /\ temps' \in Seq(TempKinds)
      /\ blocks \in Seq(Range(blocks)) /\ cipher \in [Entities -> 0..Len(blocks)]
      /\ Len(temps') <= MaxTemps
  BY DEF RunInv, RecordedTyped, StoreTyped
<1>2. /\ Len(temps) \in Nat /\ Len(temps') \in Nat /\ Len(blocks) \in Nat
      /\ DOMAIN temps = 1..Len(temps) /\ DOMAIN temps' = 1..Len(temps')
      /\ DOMAIN blocks = 1..Len(blocks)
  BY <1>1
<1>3. \A e \in Sources : Original(e)
  BY DEF SourcesIntact, Underway
<1>4. \A e \in Sources' : \/ e \in Sources /\ (e \in Callers \/ e \in DOMAIN temps)
                          \/ e \in (Len(temps) + 1)..Len(temps') /\ temps'[e] # "result"
  BY <1>2 DEF Sources
<1>5. ASSUME NEW e \in Sources'
      PROVE  /\ cipher'[e] # 0 /\ cipher'[e] \in DOMAIN blocks'
             /\ blocks'[cipher'[e]].holds = <<e>>
  <2>1. CASE /\ \A k \in 1..Len(temps) : cipher'[k] = cipher[k]
             /\ blocks' = blocks
             /\ \A k \in (Len(temps) + 1)..Len(temps') : temps'[k] = "result"
    <3>1. e \in Sources /\ (e \in Callers \/ e \in DOMAIN temps)
      BY <1>4, <2>1
    <3>2. Original(e)
      BY <1>3, <3>1
    <3>3. cipher'[e] = cipher[e]
      <4>1. CASE e \in DOMAIN temps
        BY <1>2, <2>1, <4>1
      <4>2. CASE e \notin DOMAIN temps
        <5>1. e \in Callers /\ e \in (live' \cap Callers) \ moved'
          <6>1. e \notin DOMAIN temps'
            <7>1. e \in Callers
              BY <3>1, <4>2 DEF Sources
            <7>2. \A k \in 1..Len(temps') : k \in 1..MaxTemps
              BY <1>1, <1>2, EntityFacts
            <7>3. QED
              BY <1>2, <7>1, <7>2, EntityFacts
          <6>2. QED
            BY <3>1, <4>2, <6>1 DEF Sources
        <5>2. QED
          BY <5>1
      <4>3. QED
        BY <4>1, <4>2
    <3>4. QED
      BY <2>1, <3>2, <3>3 DEF Original, IsEncrypted
  <2>2. CASE \E k \in Entities :
              /\ k \notin Callers /\ k \notin DOMAIN temps
              /\ cipher' = [cipher EXCEPT ![k] = Len(blocks) + 1]
              /\ blocks' = Append(blocks, Block(Len(blocks) + 1, "ours", <<k>>))
              /\ \A l \in (Len(temps) + 1)..Len(temps') : l = k \/ temps'[l] = "result"
    <3>1. PICK k \in Entities :
              /\ k \notin Callers /\ k \notin DOMAIN temps
              /\ cipher' = [cipher EXCEPT ![k] = Len(blocks) + 1]
              /\ blocks' = Append(blocks, Block(Len(blocks) + 1, "ours", <<k>>))
              /\ \A l \in (Len(temps) + 1)..Len(temps') : l = k \/ temps'[l] = "result"
      BY <2>2
    <3>2. PICK b : b = Block(Len(blocks) + 1, "ours", <<k>>)
      OBVIOUS
    <3>3. /\ DOMAIN blocks' = 1..(Len(blocks) + 1) /\ blocks'[Len(blocks) + 1] = b
          /\ \A l \in 1..Len(blocks) : blocks'[l] = blocks[l]
      <4>1. PICK o, p : o = blocks /\ p = Append(o, b)
        OBVIOUS
      <4>2. /\ Len(p) = Len(o) + 1 /\ p[Len(o) + 1] = b
            /\ \A l \in 1..Len(o) : p[l] = o[l]
            /\ DOMAIN p = 1..(Len(o) + 1)
        BY <1>1, <4>1, SequenceGrows
      <4>3. blocks' = p
        BY <3>1, <3>2, <4>1
      <4>4. QED
        BY <4>1, <4>2, <4>3
    <3>4. CASE e \in Sources /\ (e \in Callers \/ e \in DOMAIN temps)
      <4>1. Original(e) /\ e # k
        BY <1>3, <3>1, <3>4
      <4>2. cipher[e] \in 1..Len(blocks)
        BY <1>2, <4>1 DEF Original
      <4>3. cipher'[e] = cipher[e]
        BY <1>1, <3>1, <4>1
      <4>4. QED
        BY <1>2, <3>3, <4>1, <4>2, <4>3 DEF Original
    <3>5. CASE e \in (Len(temps) + 1)..Len(temps') /\ temps'[e] # "result"
      <4>1. e = k
        BY <3>1, <3>5
      <4>2. cipher'[e] = Len(blocks) + 1
        BY <1>1, <3>1, <4>1
      <4>3. b.holds = <<k>>
        BY <3>2 DEF Block
      <4>4. QED
        BY <1>2, <3>3, <4>1, <4>2, <4>3
    <3>6. QED
      BY <1>4, <3>4, <3>5
  <2>3. QED
    BY <2>1, <2>2 DEF Encrypting
<1>6. \A e \in Sources' : Original(e)'
  BY <1>5 DEF Original, IsEncrypted
<1>7. ~poisoned' => moved' \cap Callers = {}
  BY DEF SourcesIntact, Underway
<1>8. QED
  BY <1>6, <1>7 DEF SourcesIntact, Underway, Translating

(* A variable is assigned to, and stands alone for what it names.           *)
LEMMA AssignedMeans ==
  ASSUME RunInv, ResultsFirst, Intended, phase = "record", phase' = "record",
         poisoned' = poisoned, live' = live, moved' = moved,
         NEW x \in Usable, NEW v, now' = [now EXCEPT ![x] = v], Assigning(x),
         \A n \in live : Canonical(map', n) = Canonical(map, n),
         ~poisoned /\ ~clobbered => After'[Len(recording')][Canonical(map, x)] = v,
         \A e \in Names \cup DOMAIN temps :
           e # Canonical(map, x) =>
             After'[Len(recording')][e] = After[Len(recording)][e]
  PROVE  Intended'
<1>1. DOMAIN now = Names /\ x \in Names
  BY UsableNames DEF Intended
<1>2. DOMAIN now' = Names
  BY <1>1
<1>3. ASSUME ~poisoned', ~clobbered', NEW n \in live \ moved
      PROVE  now'[n] = After'[Len(recording')][Canonical(map', n)]
  <2>1. ~clobbered /\ Namesakes(x) = {}
    BY <1>3 DEF Assigning
  <2>2. Canonical(map', n) = Canonical(map, n) /\ n \in Names
    BY <1>3, UsableNames
  <2>3. CASE n = x
    BY <1>1, <1>3, <2>1, <2>2, <2>3
  <2>4. CASE n # x
    <3>1. Canonical(map, n) # Canonical(map, x)
      BY <1>3, <2>1, <2>4 DEF Namesakes
    <3>2. Canonical(map, n) \in Names \cup DOMAIN temps
      BY <1>3, CanonicalFits
    <3>3. Symbolic(n)
      BY <1>3, <2>1 DEF Intended, Underway
    <3>4. now'[n] = now[n]
      BY <1>1, <2>2, <2>4
    <3>5. QED
      BY <2>2, <3>1, <3>2, <3>3, <3>4 DEF Symbolic
  <2>5. QED
    BY <2>3, <2>4
<1>4. QED
  BY <1>2, <1>3 DEF Intended, Symbolic, Canonical

-----------------------------------------------------------------------------
(* Statements keep what names stand for.                                    *)

(* Tracking an entity does not change what it stands for.                   *)
LEMMA TrackedCanonical ==
  ASSUME NEW m, NEW S
  PROVE  \A e \in Entities : /\ Tracked(m, S)[e] \in {m[e], e}
                             /\ Canonical(Tracked(m, S), e) = Canonical(m, e)
<1>1. PICK t : t = Tracked(m, S)
  OBVIOUS
<1>2. \A e \in Entities : t[e] = IF e \in S /\ m[e] = Nothing THEN e ELSE m[e]
  BY <1>1 DEF Tracked
<1>3. \A e \in Entities : e # Nothing
  BY EntityFacts
<1>4. \A e \in Entities : t[e] \in {m[e], e} /\ Canonical(t, e) = Canonical(m, e)
  BY <1>2, <1>3 DEF Canonical
<1>5. QED
  BY <1>1, <1>4

Growing ==
  /\ Len(temps) <= Len(temps') /\ \A k \in 1..Len(temps) : temps'[k] = temps[k]
  /\ Len(recording) <= Len(recording')
  /\ \A k \in 1..Len(recording) : recording'[k] = recording[k]

(* An operand of what is recorded next.                                     *)
Readable(c, n) ==
  /\ c \in Names \cup DOMAIN temps' /\ ~ScalarIn(temps', c)
  /\ ResultIn(temps', c) => WrittenIn(recording', c, n)

LEMMA StillReadable ==
  ASSUME RunInv, RunInv', ResultsFirst, Growing, NEW x \in live,
         NEW n \in Nat, Len(recording) <= n
  PROVE  Readable(Canonical(map, x), n)
<1>1. PICK c : c = Canonical(map, x)
  OBVIOUS
<1>2. /\ c \in Names \cup DOMAIN temps
      /\ ResultIn(temps, c) => WrittenBefore(c, Len(recording))
      /\ ~ScalarIn(temps, c)
  BY <1>1, CanonicalFits
<1>3. /\ Len(temps) \in Nat /\ Len(temps') \in Nat /\ Len(temps') <= MaxTemps
      /\ DOMAIN temps = 1..Len(temps) /\ DOMAIN temps' = 1..Len(temps')
      /\ Len(recording) \in Nat
  <2>1. temps \in Seq(TempKinds) /\ temps' \in Seq(TempKinds) /\ recording \in Seq(Recordable)
    BY DEF RunInv, RecordedTyped
  <2>2. Len(temps') <= MaxTemps
    BY DEF RunInv, RecordedTyped
  <2>3. QED
    BY <2>1, <2>2
<1>4. \A e \in Names : e \notin DOMAIN temps'
  <2>1. \A k \in 1..Len(temps') : k \in 1..MaxTemps
    BY <1>3, EntityFacts
  <2>2. QED
    BY <1>3, <2>1, EntityFacts
<1>5. /\ c \in Names \cup DOMAIN temps'
      /\ ScalarIn(temps', c) => ScalarIn(temps, c)
      /\ ResultIn(temps', c) => ResultIn(temps, c)
  BY <1>2, <1>3, <1>4 DEF Growing, ScalarIn, ResultIn
<1>6. WrittenBefore(c, Len(recording)) => WrittenIn(recording', c, n)
  <2>1. \A j \in 1..Len(recording) : j \in 1..n /\ recording'[j] = recording[j]
    BY <1>3 DEF Growing
  <2>2. QED
    BY <2>1 DEF WrittenBefore, WrittenIn
<1>7. QED
  BY <1>1, <1>2, <1>5, <1>6 DEF Readable

-----------------------------------------------------------------------------
(* An expression.                                                           *)
Reads(e, type, y, z) ==
  LET n == Len(temps) IN
    /\ e.op.type = type /\ e.op.operand1 = Canonical(map, y)
    /\ e.op.operand2 = IF z = Nothing THEN n + 1 ELSE Canonical(map, z)
    /\ e.op.result = e.result
    /\ e.result = IF z = Nothing THEN n + 2 ELSE n + 1
    /\ Len(e.temps) = e.result /\ e.temps[e.result] = "result"
    /\ z = Nothing => e.temps[n + 1] = "scalar"
    /\ \A k \in 1..n : e.temps[k] = temps[k]
    /\ \A f \in Entities : /\ e.map[f] \in {map[f], f}
                           /\ Canonical(e.map, f) = Canonical(map, f)
    /\ e.value = <<type, now[y], IF z = Nothing THEN <<n + 1>> ELSE now[z]>>
    /\ \/ z # Nothing /\ e.cipher = cipher /\ e.blocks = blocks
       \/ /\ z = Nothing
          /\ e.cipher = [cipher EXCEPT ![n + 1] = Len(blocks) + 1]
          /\ e.blocks = Append(blocks, Block(Len(blocks) + 1, "ours", <<n + 1>>))

LEMMA ExpressionReads ==
  ASSUME RunInv, NEW type \in Arithmetic, NEW y \in Usable, NEW z \in Usable \cup {Nothing},
         Evaluable(y, z)
  PROVE  Reads(Expression(type, y, z), type, y, z)
<1>0. PICK e : e = Expression(type, y, z)
  OBVIOUS
<1> DEFINE n == Len(temps)
           k == n + 1
           second == IF z = Nothing THEN k ELSE z
           r == IF z = Nothing THEN k + 1 ELSE k
           known == Tracked(map, {y, second, r})
<1>1. /\ temps \in Seq(TempKinds) /\ n \in Nat /\ y \in Entities
      /\ Nothing \notin Entities /\ n <= MaxTemps
      /\ Registered(map, live, n)
      /\ z # Nothing => z \in Entities
  BY UsableNames, EntityFacts DEF RunInv, RecordedTyped
<1>2. \A f \in Entities : known[f] \in {map[f], f} /\ Canonical(known, f) = Canonical(map, f)
  <2>1. PICK S : S = {y, second, r}
    OBVIOUS
  <2>2. \A f \in Entities : Tracked(map, S)[f] \in {map[f], f}
                            /\ Canonical(Tracked(map, S), f) = Canonical(map, f)
    BY TrackedCanonical
  <2>3. QED
    BY <2>1, <2>2
<1>3. z = Nothing => k \in Entities /\ Canonical(map, k) = k
  <2> SUFFICES ASSUME z = Nothing
               PROVE  k \in Entities /\ Canonical(map, k) = k
    OBVIOUS
  <2>1. n + 2 <= MaxTemps
    BY DEF Evaluable, Room
  <2>2. k \in 1..MaxTemps /\ k \notin 1..n
    BY <1>1, <2>1, EntityFacts
  <2>3. k \in Entities /\ k \notin live
    BY <2>2, UsableNames, EntityFacts
  <2>4. map[k] = Nothing
    BY <1>1, <2>2, <2>3 DEF Registered
  <2>5. QED
    BY <2>3, <2>4 DEF Canonical
<1>4. /\ e.map = known /\ e.result = r
      /\ e.op = [type |-> type, operand1 |-> Canonical(known, y),
                 operand2 |-> Canonical(known, second), result |-> r]
      /\ e.temps = temps \o (IF z = Nothing THEN <<"scalar", "result">> ELSE <<"result">>)
      /\ e.value = <<type, now[y], IF z = Nothing THEN <<k>> ELSE now[z]>>
      /\ e.cipher = IF z = Nothing THEN [cipher EXCEPT ![k] = Len(blocks) + 1] ELSE cipher
      /\ e.blocks = IF z = Nothing THEN Append(blocks, Encrypted(k)) ELSE blocks
  BY <1>0, Zenon DEF Expression
<1>5. /\ Canonical(known, y) = Canonical(map, y)
      /\ Canonical(known, second) = IF z = Nothing THEN k ELSE Canonical(map, z)
  BY <1>1, <1>2, <1>3
<1>6. {"result", "scalar"} \subseteq TempKinds
  BY DEF TempKinds
<1>7. CASE z = Nothing
  <2>1. e.temps = temps \o <<"scalar", "result">>
    BY <1>4, <1>7
  <2>2. Len(e.temps) = n + 2 /\ e.temps[n + 1] = "scalar" /\ e.temps[n + 2] = "result"
        /\ \A j \in 1..n : e.temps[j] = temps[j]
    BY <1>1, <1>6, <2>1, JoinedTwo
  <2>3. r = n + 2
    BY <1>1, <1>7
  <2>4. /\ e.cipher = [cipher EXCEPT ![n + 1] = Len(blocks) + 1]
        /\ e.blocks = Append(blocks, Block(Len(blocks) + 1, "ours", <<n + 1>>))
    BY <1>4, <1>7 DEF Encrypted
  <2> HIDE DEF known, r
  <2>5. QED
    BY <1>0, <1>2, <1>4, <1>5, <1>7, <2>2, <2>3, <2>4 DEF Reads
<1>8. CASE z # Nothing
  <2>1. e.temps = temps \o <<"result">>
    BY <1>4, <1>8
  <2>2. Len(e.temps) = n + 1 /\ e.temps[n + 1] = "result"
        /\ \A j \in 1..n : e.temps[j] = temps[j]
    BY <1>1, <1>6, <2>1, JoinedOne
  <2>3. r = n + 1
    BY <1>8
  <2>4. e.cipher = cipher /\ e.blocks = blocks
    BY <1>4, <1>8
  <2> HIDE DEF known, r
  <2>5. QED
    BY <1>0, <1>2, <1>4, <1>5, <1>8, <2>2, <2>3, <2>4 DEF Reads
<1>9. QED
  BY <1>7, <1>8

(* The operation an expression records leaves its value in its result.      *)
Computed(e) ==
  LET n == Len(recording) IN
    /\ OperationFits(temps', recording', n + 1)
    /\ Target(recording'[n + 1]) = e.result
    /\ e.result \in DOMAIN temps' /\ e.result \notin Names \cup DOMAIN temps
    /\ ~ScalarIn(temps', e.result)
    /\ \A k \in (Len(temps) + 1)..Len(temps') :
         ResultIn(temps', k) => WrittenIn(recording', k, n + 1)
    /\ ~poisoned /\ ~clobbered => After'[n + 1][e.result] = e.value
    /\ \A f \in Names \cup DOMAIN temps : After'[n + 1][f] = After[n][f]

LEMMA ExpressionComputed ==
  ASSUME RunInv, RunInv', ResultsFirst, Intended, phase = "record",
         NEW type \in Arithmetic, NEW y \in Usable, NEW z \in Usable \cup {Nothing}, NEW e,
         Reads(e, type, y, z), temps' = e.temps, Growing,
         Len(recording) + 1 <= Len(recording'), recording'[Len(recording) + 1] = e.op
  PROVE  Computed(e)
<1> DEFINE n == Len(recording)
           t == Len(temps)
<1>1. /\ temps' \in Seq(TempKinds) /\ t \in Nat /\ Len(temps') \in Nat
      /\ DOMAIN temps = 1..t /\ DOMAIN temps' = 1..Len(temps')
      /\ Len(temps') <= MaxTemps
      /\ recording \in Seq(Recordable) /\ recording' \in Seq(Recordable)
      /\ n \in Nat /\ n + 1 \in 1..Len(recording')
  <2>1. /\ temps' \in Seq(TempKinds) /\ temps \in Seq(TempKinds)
        /\ recording \in Seq(Recordable) /\ recording' \in Seq(Recordable)
        /\ Len(temps') <= MaxTemps
    BY DEF RunInv, RecordedTyped
  <2>2. Len(recording') \in Nat /\ n \in Nat /\ t \in Nat /\ Len(temps') \in Nat
    BY <2>1
  <2>3. QED
    BY <2>1, <2>2
<1>2. \A f \in Names : f \notin DOMAIN temps'
  <2>1. \A k \in 1..Len(temps') : k \in 1..MaxTemps
    BY <1>1, EntityFacts
  <2>2. QED
    BY <1>1, <2>1, EntityFacts
<1>3. /\ e.op.type = type /\ type # "Assignment" /\ e.op.operand1 = Canonical(map, y)
      /\ e.op.operand2 = IF z = Nothing THEN t + 1 ELSE Canonical(map, z)
      /\ e.op.result = e.result /\ Target(e.op) = e.result
      /\ e.result = IF z = Nothing THEN t + 2 ELSE t + 1
      /\ Len(temps') = e.result /\ temps'[e.result] = "result"
      /\ z = Nothing => temps'[t + 1] = "scalar"
      /\ e.value = <<type, now[y], IF z = Nothing THEN <<t + 1>> ELSE now[z]>>
  BY DEF Reads, Arithmetic, Target
<1>4. /\ e.result \in DOMAIN temps' /\ e.result \notin Names \cup DOMAIN temps
      /\ ~ScalarIn(temps', e.result)
  <2>1. e.result \in Nat /\ e.result >= t + 1 /\ e.result = Len(temps')
    BY <1>1, <1>3
  <2>2. e.result \in DOMAIN temps' /\ e.result \notin DOMAIN temps
    BY <1>1, <2>1
  <2>3. e.result \notin Names
    BY <1>2, <2>2
  <2>4. ~ScalarIn(temps', e.result)
    BY <1>3 DEF ScalarIn
  <2>5. QED
    BY <2>2, <2>3, <2>4
<1>5. /\ Readable(Canonical(map, y), n) /\ y \in live \ moved
      /\ z # Nothing => Readable(Canonical(map, z), n) /\ z \in live \ moved
  <2>1. y \in live \ moved /\ (z # Nothing => z \in live \ moved)
    BY DEF Usable
  <2>2. n <= n
    BY <1>1
  <2>3. QED
    BY <1>1, <2>1, <2>2, StillReadable
<1>6. z = Nothing =>
        /\ t + 1 \in DOMAIN temps' /\ t + 1 \notin Names \cup DOMAIN temps
        /\ ~ResultIn(temps', t + 1) /\ t + 1 \in Entities
  <2> SUFFICES ASSUME z = Nothing
               PROVE  /\ t + 1 \in DOMAIN temps' /\ t + 1 \notin Names \cup DOMAIN temps
                      /\ ~ResultIn(temps', t + 1) /\ t + 1 \in Entities
    OBVIOUS
  <2>1. t + 1 \in DOMAIN temps' /\ t + 1 \notin DOMAIN temps
    BY <1>1, <1>3
  <2>2. t + 1 \in 1..MaxTemps
    BY <1>1, <2>1, EntityFacts
  <2>3. QED
    BY <1>2, <1>3, <2>1, <2>2, EntityFacts DEF ResultIn
<1>7. OperationFits(temps', recording', n + 1)
  <2>1. PICK op : op = e.op /\ op = recording'[n + 1]
    OBVIOUS
  <2>2. Mentions(op) = {op.operand1, op.operand2, e.result}
    BY <1>3, <2>1 DEF Mentions
  <2>3. Mentions(op) \subseteq Names \cup DOMAIN temps'
    BY <1>3, <1>4, <1>5, <1>6, <2>1, <2>2 DEF Readable
  <2>4. ~ScalarIn(temps', Target(op)) /\ ~ScalarIn(temps', op.operand1)
    BY <1>3, <1>4, <1>5, <2>1 DEF Readable
  <2>5. \A f \in {op.operand1, op.operand2} :
          ResultIn(temps', f) => WrittenIn(recording', f, n)
    BY <1>3, <1>5, <1>6, <2>1 DEF Readable
  <2>6. (n + 1) - 1 = n
    BY <1>1
  <2>7. QED
    BY <1>3, <2>1, <2>3, <2>4, <2>5, <2>6 DEF OperationFits
<1>8. \A k \in (t + 1)..Len(temps') :
        ResultIn(temps', k) => WrittenIn(recording', k, n + 1)
  <2> TAKE k \in (t + 1)..Len(temps')
  <2> HAVE ResultIn(temps', k)
  <2>1. k = e.result
    <3>1. CASE z = Nothing
      <4>1. k = t + 1 \/ k = t + 2
        BY <1>1, <1>3, <3>1
      <4>2. k # t + 1
        BY <1>6, <3>1
      <4>3. QED
        BY <1>3, <3>1, <4>1, <4>2
    <3>2. CASE z # Nothing
      BY <1>1, <1>3, <3>2
    <3>3. QED
      BY <3>1, <3>2
  <2>2. Target(recording'[n + 1]) = k /\ n + 1 \in 1..(n + 1)
    BY <1>1, <1>3, <2>1
  <2>3. QED
    BY <2>2 DEF WrittenIn
<1>9. /\ \A k \in 0..n : After'[k] = After[k]
      /\ OneWritten(recording', After', Len(recording'))
  BY <1>1, AfterExtends DEF Growing
<1>10. PICK a : a = After'
  OBVIOUS
<1>11. /\ a[n] = After[n]
       /\ a[n + 1][e.result] = <<type, a[n][e.op.operand1], a[n][e.op.operand2]>>
       /\ \A f \in Entities : f # e.result => a[n + 1][f] = a[n][f]
  <2>1. n \in 0..n /\ (n + 1) - 1 = n
    BY <1>1
  <2>2. Written(e.op, a[n]) = <<type, a[n][e.op.operand1], a[n][e.op.operand2]>>
    BY <1>3 DEF Written
  <2>3. /\ a[n + 1][Target(recording'[n + 1])] = Written(recording'[n + 1], a[(n + 1) - 1])
        /\ \A f \in Entities : f # Target(recording'[n + 1]) => a[n + 1][f] = a[(n + 1) - 1][f]
    BY <1>1, <1>9, <1>10 DEF OneWritten
  <2>4. QED
    BY <1>3, <1>9, <1>10, <2>1, <2>2, <2>3
<1>12. \A f \in Names \cup DOMAIN temps : a[n + 1][f] = After[n][f]
  <2>1. \A f \in Names \cup DOMAIN temps : f \in Entities /\ f # e.result
    <3>1. \A k \in DOMAIN temps : k \in 1..MaxTemps
      BY <1>1, EntityFacts, UsableNames
    <3>2. QED
      BY <1>4, <3>1, EntityFacts
  <2>2. QED
    BY <1>11, <2>1
<1>13. ~poisoned /\ ~clobbered => a[n + 1][e.result] = e.value
  <2> SUFFICES ASSUME ~poisoned, ~clobbered
               PROVE  a[n + 1][e.result] = e.value
    OBVIOUS
  <2>1. \A x \in live \ moved : now[x] = After[n][Canonical(map, x)]
    BY DEF Intended, Underway, Symbolic
  <2>2. z = Nothing => After[n][t + 1] = <<t + 1>>
    BY <1>6, UnmentionedAfter
  <2>3. After[n][e.op.operand1] = now[y]
    BY <1>3, <1>5, <2>1
  <2>4. After[n][e.op.operand2] = IF z = Nothing THEN <<t + 1>> ELSE now[z]
    BY <1>3, <1>5, <2>1, <2>2
  <2>5. QED
    BY <1>3, <1>11, <2>3, <2>4
<1>14. QED
  BY <1>3, <1>4, <1>7, <1>8, <1>10, <1>12, <1>13 DEF Computed

-----------------------------------------------------------------------------
(* Statements that assign.                                                  *)

(* What a statement that only adds keeps of the names.                      *)
LEMMA AssignmentFits ==
  ASSUME NEW n \in Nat, NEW v, NEW w, recording'[n + 1] = Assignment(v, w),
         Readable(v, n), Readable(w, n)
  PROVE  OperationFits(temps', recording', n + 1)
<1>1. PICK op : op = recording'[n + 1]
  OBVIOUS
<1>2. op.type = "Assignment" /\ op.operand1 = v /\ op.operand2 = w /\ Target(op) = v
  BY <1>1 DEF Assignment, Target
<1>3. Mentions(op) = {v, w} /\ (n + 1) - 1 = n
  BY <1>2 DEF Mentions
<1>4. QED
  BY <1>1, <1>2, <1>3 DEF Readable, OperationFits

(* An assignment leaves in its target what its right side holds.            *)
LEMMA AssignmentMeans ==
  ASSUME RunInv, RunInv', Growing, NEW n \in Nat, n + 1 <= Len(recording'),
         NEW v, NEW w, recording'[n + 1] = Assignment(v, w)
  PROVE  /\ After'[n + 1][v] = After'[n][w]
         /\ \A f \in Entities : f # v => After'[n + 1][f] = After'[n][f]
<1>1. recording \in Seq(Recordable) /\ recording' \in Seq(Recordable)
  BY DEF RunInv, RecordedTyped
<1>2. OneWritten(recording', After', Len(recording'))
  BY <1>1, AfterExtends DEF Growing
<1>3. PICK a : a = After'
  OBVIOUS
<1>4. PICK op : op = recording'[n + 1]
  OBVIOUS
<1>5. op.type = "Assignment" /\ op.operand2 = w /\ Target(op) = v /\ (n + 1) - 1 = n
  BY <1>4 DEF Assignment, Target
<1>6. Written(op, a[n]) = a[n][w]
  BY <1>5 DEF Written
<1>7. n + 1 \in 1..Len(recording')
  BY <1>1
<1>8. /\ a[n + 1][Target(op)] = Written(op, a[(n + 1) - 1])
      /\ \A f \in Entities : f # Target(op) => a[n + 1][f] = a[(n + 1) - 1][f]
  BY <1>2, <1>3, <1>4, <1>7 DEF OneWritten
<1>9. QED
  BY <1>3, <1>5, <1>6, <1>8

(* A statement that only adds leaves the variables it read as they were.    *)
LEMMA SourcesKept ==
  ASSUME RunInv, RunInv', SourcesIntact, phase = "record", phase' = "record", Growing,
         start' = start, poisoned' = poisoned, moved' = moved,
         live' \cap Callers \subseteq live, \A c \in Callers : cipher'[c] = cipher[c],
         Encrypting
  PROVE  SourcesIntact'
<1>1. \A c \in (live' \cap Callers) \ moved' : c \in live \ moved /\ cipher'[c] = cipher[c]
  OBVIOUS
<1>2. /\ phase' \in {"record", "optimize", "throw"}
      /\ phase' = "optimize" => live' \subseteq Callers
      /\ ~poisoned' => ~poisoned /\ moved' \cap Callers \subseteq moved
  OBVIOUS
<1>3. Len(temps) <= Len(temps') /\ \A k \in 1..Len(temps) : temps'[k] = temps[k]
  BY DEF Growing
<1>4. QED
  BY <1>1, <1>2, <1>3, SourcesStill

(* What an expression encrypts is its literal.                              *)
LEMMA ExpressionEncrypts ==
  ASSUME RunInv, NEW e, NEW type, NEW y, NEW z, Reads(e, type, y, z),
         ExpressionFits(e), temps' = e.temps, cipher' = e.cipher, blocks' = e.blocks
  PROVE  Encrypting
<1> DEFINE n == Len(temps)
<1>1. /\ n \in Nat /\ DOMAIN temps = 1..n /\ Len(temps') <= MaxTemps /\ Len(temps') \in Nat
      /\ temps'[Len(temps')] = "result"
      /\ Len(temps') = IF z = Nothing THEN n + 2 ELSE n + 1
  BY UsableNames DEF ExpressionFits, Reads
<1>2. CASE z # Nothing
  <2>1. \A k \in (n + 1)..Len(temps') : temps'[k] = "result"
    <3> TAKE k \in (n + 1)..Len(temps')
    <3>1. k = Len(temps')
      BY <1>1, <1>2
    <3>2. QED
      BY <1>1, <3>1
  <2>2. cipher' = cipher /\ blocks' = blocks
    BY <1>2 DEF Reads
  <2>3. QED
    BY <2>1, <2>2 DEF Encrypting
<1>3. CASE z = Nothing
  <2>1. PICK k : k = n + 1
    OBVIOUS
  <2>2. k \in 1..MaxTemps /\ k \notin DOMAIN temps
    BY <1>1, <1>3, <2>1, EntityFacts
  <2>3. k \in Entities /\ k \notin Callers
    BY <2>2, EntityFacts
  <2>4. \A l \in (n + 1)..Len(temps') : l = k \/ temps'[l] = "result"
    <3> TAKE l \in (n + 1)..Len(temps')
    <3>1. l = n + 1 \/ l = Len(temps')
      BY <1>1, <1>3
    <3>2. QED
      BY <1>1, <2>1, <3>1
  <2>5. /\ cipher' = [cipher EXCEPT ![k] = Len(blocks) + 1]
        /\ blocks' = Append(blocks, Block(Len(blocks) + 1, "ours", <<k>>))
    BY <1>3, <2>1 DEF Reads
  <2>6. QED
    BY <2>2, <2>3, <2>4, <2>5 DEF Encrypting
<1>4. QED
  BY <1>2, <1>3

-----------------------------------------------------------------------------
LEMMA MeantAssignResult ==
  ASSUME RunInv, RunInv', LambdaInv, AssignResult
  PROVE  LambdaInv'
<1>1. PICK type \in Arithmetic, x \in Usable, y \in Usable, z \in Usable \cup {Nothing} :
        /\ Evaluable(y, z)
        /\ LET e == Expression(type, y, z) IN
             /\ map' = Tracked(e.map, {x})
             /\ temps' = e.temps /\ cipher' = e.cipher /\ blocks' = e.blocks
             /\ recording' = recording \o
                  <<e.op, Assignment(Canonical(e.map, x), e.result)>>
             /\ now' = [now EXCEPT ![x] = e.value]
             /\ Assigning(x)
  BY Zenon DEF AssignResult
<1>2. PICK e : e = Expression(type, y, z)
  OBVIOUS
<1>3. Reads(e, type, y, z) /\ ExpressionFits(e)
  BY <1>1, <1>2, ExpressionReads, ExpressionKeeps
<1>4. /\ UNCHANGED <<phase, plain, start, poisoned, live, moved>> /\ phase = "record"
      /\ phase' = "record" /\ poisoned' = poisoned /\ live' = live /\ moved' = moved
      /\ start' = start
  BY DEF AssignResult, Executing
<1> DEFINE n == Len(recording)
           t == Canonical(map, x)
           a == Assignment(t, e.result)
<1>5. /\ x \in live \ moved /\ x \in Names /\ x \in Entities
      /\ recording \in Seq(Recordable) /\ n \in Nat
      /\ Len(temps) \in Nat
      /\ ResultsFirst /\ Intended /\ SourcesIntact
  BY UsableNames DEF RunInv, RecordedTyped, Usable, LambdaInv
<1>6. /\ map' = Tracked(e.map, {x}) /\ temps' = e.temps
      /\ cipher' = e.cipher /\ blocks' = e.blocks
      /\ recording' = recording \o <<e.op, a>>
      /\ now' = [now EXCEPT ![x] = e.value]
  BY <1>1, <1>2, <1>3, <1>5 DEF Reads
<1>7. /\ Len(recording') = n + 2 /\ recording'[n + 1] = e.op /\ recording'[n + 2] = a
      /\ \A k \in 1..n : recording'[k] = recording[k]
  <2>1. PICK S, o : S = Range(recording) \cup {e.op, o} /\ o = a
    OBVIOUS
  <2>2. recording \in Seq(S) /\ e.op \in S /\ o \in S
    <3>1. \A k \in 1..n : recording[k] \in S
      BY <1>5, <2>1 DEF Range
    <3>2. QED
      BY <1>5, <2>1, <3>1
  <2>3. recording' = recording \o <<e.op, o>>
    BY <1>6, <2>1
  <2> HIDE DEF a, n
  <2>4. /\ Len(recording') = Len(recording) + 2 /\ recording'[Len(recording) + 1] = e.op
        /\ recording'[Len(recording) + 2] = o
        /\ \A k \in 1..Len(recording) : recording'[k] = recording[k]
    BY <2>2, <2>3, JoinedTwo
  <2>5. QED
    BY <2>1, <2>4 DEF n
<1> HIDE DEF a, t
<1>8. Growing
  <2>1. Len(temps) <= Len(temps') /\ \A k \in 1..Len(temps) : temps'[k] = temps[k]
    BY <1>3, <1>6 DEF Reads, ExpressionFits
  <2>2. QED
    BY <1>5, <1>7, <2>1 DEF Growing
<1>9. Computed(e)
  <2>1. n + 1 <= Len(recording')
    BY <1>5, <1>7
  <2>2. QED
    BY <1>3, <1>4, <1>5, <1>6, <1>7, <1>8, <2>1, ExpressionComputed
<1>10. recording'[(n + 1) + 1] = Assignment(t, e.result) /\ n + 1 \in Nat
  BY <1>5, <1>7 DEF a
<1>11. Readable(t, n + 1) /\ Readable(e.result, n + 1)
  <2>1. Readable(t, n + 1)
    <3>1. n <= n + 1 /\ x \in live
      BY <1>5
    <3>2. QED
      BY <1>5, <1>8, <1>10, <3>1, StillReadable DEF t
  <2>2. Readable(e.result, n + 1)
    <3>1. Target(recording'[n + 1]) = e.result /\ n + 1 \in 1..(n + 1)
      BY <1>5, <1>9 DEF Computed
    <3>2. QED
      BY <1>9, <3>1 DEF Readable, Computed, WrittenIn
  <2>3. QED
    BY <2>1, <2>2
<1>12. /\ OperationFits(temps', recording', n + 1)
       /\ OperationFits(temps', recording', n + 2)
  <2>1. OperationFits(temps', recording', (n + 1) + 1)
    BY <1>10, <1>11, AssignmentFits
  <2>2. (n + 1) + 1 = n + 2
    BY <1>5
  <2>3. QED
    BY <1>9, <2>1, <2>2 DEF Computed
<1>13. /\ \A f \in Entities : map'[f] \in {map[f], f} /\ Canonical(map', f) = Canonical(map, f)
  <2>1. \A f \in Entities : e.map[f] \in {map[f], f} /\ Canonical(e.map, f) = Canonical(map, f)
    BY <1>3 DEF Reads
  <2>2. PICK m, S : m = e.map /\ S = {x}
    OBVIOUS
  <2>3. \A f \in Entities : Tracked(m, S)[f] \in {m[f], f}
                            /\ Canonical(Tracked(m, S), f) = Canonical(m, f)
    BY TrackedCanonical
  <2>4. QED
    BY <1>6, <2>1, <2>2, <2>3
<1>14. ResultsFirst'
  <2>1. \A k \in (n + 1)..Len(recording') : OperationFits(temps', recording', k)
    <3> TAKE k \in (n + 1)..Len(recording')
    <3>1. k = n + 1 \/ k = n + 2
      BY <1>5, <1>7
    <3>2. QED
      BY <1>12, <3>1
  <2>2. \A f \in (Len(temps) + 1)..Len(temps') :
          ResultIn(temps', f) => WrittenIn(recording', f, Len(recording'))
    <3> TAKE f \in (Len(temps) + 1)..Len(temps')
    <3>1. ResultIn(temps', f) => WrittenIn(recording', f, n + 1)
      BY <1>9 DEF Computed
    <3>2. \A k \in 1..(n + 1) : k \in 1..Len(recording')
      BY <1>5, <1>7
    <3>3. QED
      BY <3>1, <3>2 DEF WrittenIn
  <2>3. /\ \A f \in Names : map'[f] \in {map[f], f, Nothing} \/ ResultIn(temps', map'[f])
        /\ \A f \in Callers : map'[f] \in {map[f], f, Nothing}
    BY <1>13, EntityFacts
  <2>4. QED
    BY <1>5, <1>8, <2>1, <2>2, <2>3, ResultsStill DEF Growing
<1>15. SourcesIntact'
  <2>1. \A c \in Callers : cipher'[c] = cipher[c]
    BY <1>3, <1>4, <1>6, MadeApart DEF ExpressionFits
  <2>2. Encrypting
    BY <1>3, <1>6, ExpressionEncrypts
  <2>3. QED
    BY <1>4, <1>5, <1>8, <2>1, <2>2, SourcesKept
<1>16. Intended'
  <2>1. /\ After'[(n + 1) + 1][t] = After'[n + 1][e.result]
        /\ \A f \in Entities : f # t => After'[(n + 1) + 1][f] = After'[n + 1][f]
    <3>1. (n + 1) + 1 <= Len(recording')
      BY <1>5, <1>7
    <3>2. QED
      BY <1>8, <1>10, <3>1, AssignmentMeans
  <2>2. (n + 1) + 1 = Len(recording')
    BY <1>5, <1>7
  <2>3. ~poisoned /\ ~clobbered => After'[Len(recording')][Canonical(map, x)] = e.value
    BY <1>9, <2>1, <2>2 DEF Computed, t
  <2>4. \A f \in Names \cup DOMAIN temps :
          f # Canonical(map, x) => After'[Len(recording')][f] = After[Len(recording)][f]
    <3> TAKE f \in Names \cup DOMAIN temps
    <3>1. f \in Entities
      <4>1. \A k \in DOMAIN temps : k \in 1..MaxTemps
        BY EntityFacts, UsableNames
      <4>2. QED
        BY <4>1, EntityFacts
    <3>2. QED
      BY <1>9, <2>1, <2>2, <3>1 DEF Computed, t
  <2>5. \A f \in live : Canonical(map', f) = Canonical(map, f)
    BY <1>13, UsableNames
  <2>6. PICK v : v = e.value
    OBVIOUS
  <2>7. Assigning(x)
    BY <1>1
  <2>8. QED
    BY <1>4, <1>5, <1>6, <2>3, <2>4, <2>5, <2>6, <2>7, AssignedMeans
<1>17. QED
  BY <1>14, <1>15, <1>16 DEF LambdaInv

(* The recording grows by one operation, or by none.                        *)
LEMMA OneMoreIs ==
  ASSUME RunInv, NEW a, recording' = Append(recording, a)
  PROVE  /\ Len(recording) \in Nat /\ Len(recording') = Len(recording) + 1
         /\ recording'[Len(recording) + 1] = a
         /\ \A k \in 1..Len(recording) : recording'[k] = recording[k]
<1>1. recording \in Seq(Recordable)
  BY DEF RunInv, RecordedTyped
<1>2. PICK o, p : o = recording /\ p = Append(o, a)
  OBVIOUS
<1>3. o \in Seq(Range(o))
  BY <1>1, <1>2, SequenceOfElements
<1>4. /\ Len(p) = Len(o) + 1 /\ p[Len(o) + 1] = a /\ Len(o) \in Nat
      /\ \A k \in 1..Len(o) : p[k] = o[k]
  BY <1>2, <1>3, SequenceGrows
<1>5. QED
  BY <1>2, <1>4

LEMMA NamesOfStatement ==
  ASSUME RunInv, ResultsFirst
  PROVE  /\ Names \cup DOMAIN temps \subseteq Entities
         /\ Names \subseteq Entities /\ Len(temps) \in Nat /\ Len(recording) \in Nat
         /\ \A k \in (Len(temps) + 1)..Len(temps) : FALSE
         /\ \A k \in (Len(recording) + 1)..Len(recording) : FALSE
<1>1. \A k \in DOMAIN temps : k \in 1..MaxTemps
  BY EntityFacts, UsableNames
<1>2. recording \in Seq(Recordable)
  BY DEF RunInv, RecordedTyped
<1>3. Len(recording) \in Nat /\ Len(temps) \in Nat
  BY <1>2, UsableNames
<1>4. QED
  BY <1>1, <1>3, EntityFacts

LEMMA MeantAssignCopy ==
  ASSUME RunInv, RunInv', LambdaInv, AssignCopy
  PROVE  LambdaInv'
<1>1. PICK x \in Usable, y \in Usable :
        LET known == Tracked(map, {x, y}) IN
          /\ map' = known
          /\ recording' = Append(recording,
               Assignment(Canonical(known, x), Canonical(known, y)))
          /\ now' = [now EXCEPT ![x] = now[y]]
          /\ Assigning(x)
  BY DEF AssignCopy
<1>2. /\ phase = "record" /\ phase' = "record" /\ poisoned' = poisoned /\ live' = live
      /\ moved' = moved /\ start' = start /\ temps' = temps
      /\ cipher' = cipher /\ blocks' = blocks
  BY DEF AssignCopy, Executing, store
<1> DEFINE n == Len(recording)
           v == Canonical(map, x)
           w == Canonical(map, y)
<1>3. /\ ResultsFirst /\ Intended /\ SourcesIntact
      /\ x \in live \ moved /\ y \in live \ moved
      /\ x \in Entities /\ y \in Entities
  BY UsableNames DEF LambdaInv, Usable
<1>4. /\ \A f \in Entities : map'[f] \in {map[f], f} /\ Canonical(map', f) = Canonical(map, f)
  <2>1. PICK S : S = {x, y}
    OBVIOUS
  <2>2. map' = Tracked(map, S)
    BY <1>1, <2>1
  <2>3. QED
    BY <2>2, TrackedCanonical
<1>5. recording' = Append(recording, Assignment(v, w))
  BY <1>1, <1>3, <1>4
<1>6. /\ n \in Nat /\ Len(recording') = n + 1 /\ recording'[n + 1] = Assignment(v, w)
      /\ \A k \in 1..n : recording'[k] = recording[k]
  <2>1. PICK a : a = Assignment(v, w)
    OBVIOUS
  <2>2. recording' = Append(recording, a)
    BY <1>5, <2>1
  <2>3. QED
    BY <2>1, <2>2, OneMoreIs
<1>7. Growing
  BY <1>2, <1>6, UsableNames DEF Growing
<1> HIDE DEF n, v, w
<1>8. Readable(v, n) /\ Readable(w, n)
  <2>1. Len(recording) <= n
    BY <1>6 DEF n
  <2>2. QED
    BY <1>3, <1>6, <1>7, <2>1, StillReadable DEF v, w
<1>9. OperationFits(temps', recording', n + 1)
  BY <1>6, <1>8, AssignmentFits
<1>10. ResultsFirst'
  <2>1. \A k \in (Len(recording) + 1)..Len(recording') : OperationFits(temps', recording', k)
    <3> TAKE k \in (Len(recording) + 1)..Len(recording')
    <3>1. k = n + 1
      BY <1>6 DEF n
    <3>2. QED
      BY <1>9, <3>1
  <2>2. /\ \A f \in Names : map'[f] \in {map[f], f, Nothing} \/ ResultIn(temps', map'[f])
        /\ \A f \in Callers : map'[f] \in {map[f], f, Nothing}
    BY <1>4, EntityFacts
  <2>3. \A f \in (Len(temps) + 1)..Len(temps') :
          ResultIn(temps', f) => WrittenIn(recording', f, Len(recording'))
    BY <1>2, <1>3, NamesOfStatement
  <2>4. QED
    BY <1>3, <1>7, <2>1, <2>2, <2>3, ResultsStill DEF Growing
<1>11. Encrypting
  BY <1>2, <1>3, NamesOfStatement DEF Encrypting
<1>12. SourcesIntact'
  BY <1>2, <1>3, <1>7, <1>11, SourcesKept
<1>13. Intended'
  <2>1. /\ After'[n + 1][v] = After'[n][w]
        /\ \A f \in Entities : f # v => After'[n + 1][f] = After'[n][f]
    <3>1. n + 1 <= Len(recording')
      BY <1>6
    <3>2. n \in Nat /\ recording'[n + 1] = Assignment(v, w)
      BY <1>6
    <3>3. QED
      BY <1>7, <3>1, <3>2, AssignmentMeans
  <2>2. After'[n] = After[n]
    <3>1. recording \in Seq(Recordable) /\ recording' \in Seq(Recordable)
      BY DEF RunInv, RecordedTyped
    <3>2. n \in 0..Len(recording)
      BY <1>6 DEF n
    <3>3. QED
      BY <1>7, <3>1, <3>2, AfterExtends DEF Growing
  <2>3. PICK u : u = now[y]
    OBVIOUS
  <2>4. ~poisoned /\ ~clobbered => After'[Len(recording')][Canonical(map, x)] = u
    <3>1. ~poisoned /\ ~clobbered => now[y] = After[n][w]
      BY <1>2, <1>3 DEF Intended, Underway, Symbolic, n, w
    <3>2. QED
      BY <1>6, <2>1, <2>2, <2>3, <3>1 DEF v
  <2>5. \A f \in Names \cup DOMAIN temps :
          f # Canonical(map, x) => After'[Len(recording')][f] = After[Len(recording)][f]
    <3>1. Names \cup DOMAIN temps \subseteq Entities
      BY <1>3, NamesOfStatement
    <3>2. QED
      BY <1>6, <2>1, <2>2, <3>1 DEF v, n
  <2>6. \A f \in live : Canonical(map', f) = Canonical(map, f)
    BY <1>4, UsableNames
  <2>7. Assigning(x) /\ now' = [now EXCEPT ![x] = u]
    BY <1>1, <2>3
  <2>8. QED
    BY <1>2, <1>3, <2>4, <2>5, <2>6, <2>7, AssignedMeans
<1>14. QED
  BY <1>10, <1>12, <1>13 DEF LambdaInv

LEMMA MeantAssignConstant ==
  ASSUME RunInv, RunInv', LambdaInv, AssignConstant
  PROVE  LambdaInv'
<1> DEFINE t == Len(temps)
           c == t + 1
           n == Len(recording)
<1>1. PICK x \in Usable :
        LET known == Tracked(map, {x, c}) IN
          /\ HasProfile(x) /\ Room(1)
          /\ map' = known
          /\ temps' = Append(temps, "constant")
          /\ cipher' = [cipher EXCEPT ![c] = Len(blocks) + 1]
          /\ blocks' = Append(blocks, Encrypted(c))
          /\ recording' = Append(recording, Assignment(Canonical(known, x), c))
          /\ now' = [now EXCEPT ![x] = <<c>>]
          /\ Assigning(x)
  BY DEF AssignConstant
<1>2. /\ phase = "record" /\ phase' = "record" /\ poisoned' = poisoned /\ live' = live
      /\ moved' = moved /\ start' = start /\ plain' = plain
  BY DEF AssignConstant, Executing
<1> DEFINE v == Canonical(map, x)
<1>3. /\ ResultsFirst /\ Intended /\ SourcesIntact
      /\ x \in live \ moved /\ x \in Entities /\ t \in Nat
      /\ temps \in Seq(TempKinds) /\ Registered(map, live, t)
      /\ DOMAIN temps = 1..t /\ t + 1 <= MaxTemps
  BY <1>1, UsableNames DEF LambdaInv, Usable, RunInv, RecordedTyped, Room
<1>4. /\ \A f \in Entities : map'[f] \in {map[f], f} /\ Canonical(map', f) = Canonical(map, f)
  <2>1. PICK S : S = {x, c}
    OBVIOUS
  <2>2. map' = Tracked(map, S)
    BY <1>1, <2>1
  <2>3. QED
    BY <2>2, TrackedCanonical
<1>5. recording' = Append(recording, Assignment(v, c))
  BY <1>1, <1>3, <1>4
<1>6. /\ n \in Nat /\ Len(recording') = n + 1 /\ recording'[n + 1] = Assignment(v, c)
      /\ \A k \in 1..n : recording'[k] = recording[k]
  <2>1. PICK a : a = Assignment(v, c)
    OBVIOUS
  <2>2. recording' = Append(recording, a)
    BY <1>5, <2>1
  <2>3. QED
    BY <2>1, <2>2, OneMoreIs
<1>7. /\ Len(temps') = c /\ temps'[c] = "constant" /\ DOMAIN temps' = 1..c
      /\ \A k \in 1..t : temps'[k] = temps[k]
  <2>1. "constant" \in TempKinds
    BY DEF TempKinds
  <2>2. QED
    BY <1>1, <1>3, <2>1, Appended
<1>8. c \in 1..MaxTemps /\ c \notin DOMAIN temps /\ c \in Entities /\ c \notin Names
      /\ c \in DOMAIN temps' /\ ~ScalarIn(temps', c) /\ ~ResultIn(temps', c)
  <2>1. c \in 1..MaxTemps /\ c \notin DOMAIN temps /\ c \in DOMAIN temps'
    BY <1>3, <1>7, EntityFacts
  <2>2. QED
    BY <1>7, <2>1, EntityFacts DEF ScalarIn, ResultIn
<1>9. Growing
  BY <1>3, <1>6, <1>7 DEF Growing
<1> HIDE DEF n, v, c, t
<1>10. Readable(v, n) /\ Readable(c, n)
  <2>1. Len(recording) <= n
    BY <1>6 DEF n
  <2>2. Readable(v, n)
    BY <1>3, <1>6, <1>9, <2>1, StillReadable DEF v
  <2>3. QED
    BY <1>8, <2>2 DEF Readable
<1>11. OperationFits(temps', recording', n + 1)
  BY <1>6, <1>10, AssignmentFits
<1>12. ResultsFirst'
  <2>1. \A k \in (Len(recording) + 1)..Len(recording') : OperationFits(temps', recording', k)
    <3> TAKE k \in (Len(recording) + 1)..Len(recording')
    <3>1. k = n + 1
      BY <1>6 DEF n
    <3>2. QED
      BY <1>11, <3>1
  <2>2. /\ \A f \in Names : map'[f] \in {map[f], f, Nothing} \/ ResultIn(temps', map'[f])
        /\ \A f \in Callers : map'[f] \in {map[f], f, Nothing}
    BY <1>4, EntityFacts
  <2>3. \A f \in (Len(temps) + 1)..Len(temps') :
          ResultIn(temps', f) => WrittenIn(recording', f, Len(recording'))
    <3> TAKE f \in (Len(temps) + 1)..Len(temps')
    <3>1. f = c
      BY <1>3, <1>7 DEF c, t
    <3>2. QED
      BY <1>8, <3>1
  <2>4. QED
    BY <1>3, <1>9, <2>1, <2>2, <2>3, ResultsStill DEF Growing
<1>13. Encrypting
  <2>1. /\ c \notin Callers /\ c \notin DOMAIN temps
        /\ cipher' = [cipher EXCEPT ![c] = Len(blocks) + 1]
        /\ blocks' = Append(blocks, Block(Len(blocks) + 1, "ours", <<c>>))
    BY <1>1, <1>8, EntityFacts DEF Encrypted, c, t
  <2>2. \A l \in (Len(temps) + 1)..Len(temps') : l = c \/ temps'[l] = "result"
    BY <1>3, <1>7 DEF c, t
  <2>3. QED
    BY <1>8, <2>1, <2>2 DEF Encrypting
<1>14. SourcesIntact'
  <2>1. \A d \in Callers : cipher'[d] = cipher[d]
    <3>1. c \in Entities \ Callers
      BY <1>8, EntityFacts
    <3>2. /\ cipher' = [cipher EXCEPT ![c] = Len(blocks) + 1]
          /\ blocks' = Append(blocks, Block(Len(blocks) + 1, "ours", <<c>>))
      BY <1>1 DEF Encrypted, c, t
    <3>3. QED
      BY <1>2, <3>1, <3>2, MadeApart
  <2>2. QED
    BY <1>2, <1>3, <1>9, <1>13, <2>1, SourcesKept
<1>15. Intended'
  <2>1. /\ After'[n + 1][v] = After'[n][c]
        /\ \A f \in Entities : f # v => After'[n + 1][f] = After'[n][f]
    <3>1. n + 1 <= Len(recording')
      BY <1>6
    <3>2. QED
      BY <1>6, <1>9, <3>1, AssignmentMeans
  <2>2. After'[n] = After[n]
    <3>1. recording \in Seq(Recordable) /\ recording' \in Seq(Recordable)
      BY DEF RunInv, RecordedTyped
    <3>2. n \in 0..Len(recording)
      BY <1>6 DEF n
    <3>3. QED
      BY <1>9, <3>1, <3>2, AfterExtends DEF Growing
  <2>3. PICK u : u = <<c>>
    OBVIOUS
  <2>4. ~poisoned /\ ~clobbered => After'[Len(recording')][Canonical(map, x)] = u
    <3>1. After[Len(recording)][c] = <<c>>
      BY <1>3, <1>8, UnmentionedAfter
    <3>2. QED
      BY <1>6, <2>1, <2>2, <2>3, <3>1 DEF v, n
  <2>5. \A f \in Names \cup DOMAIN temps :
          f # Canonical(map, x) => After'[Len(recording')][f] = After[Len(recording)][f]
    <3>1. Names \cup DOMAIN temps \subseteq Entities
      BY <1>3, NamesOfStatement
    <3>2. QED
      BY <1>6, <2>1, <2>2, <3>1 DEF v, n
  <2>6. \A f \in live : Canonical(map', f) = Canonical(map, f)
    BY <1>4, UsableNames
  <2>7. Assigning(x) /\ now' = [now EXCEPT ![x] = u]
    BY <1>1, <2>3 DEF c, t
  <2>8. QED
    BY <1>2, <1>3, <2>4, <2>5, <2>6, <2>7, AssignedMeans
<1>16. QED
  BY <1>12, <1>14, <1>15 DEF LambdaInv

-----------------------------------------------------------------------------
(* Statements that declare.                                                 *)

(* A new name holds what it stands for.                                     *)
LEMMA DeclaredMeans ==
  ASSUME RunInv, ResultsFirst, Intended, phase = "record", phase' = "record", Declaring,
         ~poisoned' => ~poisoned, clobbered' = clobbered,
         live' = live \cup {Free}, moved \subseteq moved',
         NEW v, now' = [now EXCEPT ![Free] = v],
         \A n \in live : Canonical(map', n) = Canonical(map, n),
         ~poisoned' /\ ~clobbered => After'[Len(recording')][Canonical(map', Free)] = v,
         \A e \in Names \cup DOMAIN temps :
           After'[Len(recording')][e] = After[Len(recording)][e]
  PROVE  Intended'
<1>1. DOMAIN now = Names /\ Free \in Names /\ Free \notin live
  BY FreeName DEF Intended
<1>2. DOMAIN now' = Names
  BY <1>1
<1>3. ASSUME ~poisoned', ~clobbered', NEW n \in live' \ moved'
      PROVE  now'[n] = After'[Len(recording')][Canonical(map', n)]
  <2>1. CASE n = Free
    BY <1>1, <1>3, <2>1
  <2>2. CASE n # Free
    <3>1. n \in live \ moved /\ n \in Names
      BY <1>3, <2>2, UsableNames
    <3>2. Symbolic(n)
      BY <1>3, <3>1 DEF Intended, Underway
    <3>3. Canonical(map, n) \in Names \cup DOMAIN temps
      BY <3>1, CanonicalFits
    <3>4. now'[n] = now[n]
      BY <1>1, <2>2, <3>1
    <3>5. QED
      BY <3>1, <3>2, <3>3, <3>4 DEF Symbolic
  <2>3. QED
    BY <2>1, <2>2
<1>4. QED
  BY <1>2, <1>3 DEF Intended, Symbolic, Canonical

LEMMA MeantDeclareResult ==
  ASSUME RunInv, RunInv', LambdaInv, DeclareResult
  PROVE  LambdaInv'
<1>1. PICK type \in Arithmetic, y \in Usable, z \in Usable \cup {Nothing} :
        /\ Evaluable(y, z)
        /\ LET e == Expression(type, y, z) IN
             /\ map' = [e.map EXCEPT ![Free] = e.result]
             /\ temps' = e.temps /\ cipher' = e.cipher /\ blocks' = e.blocks
             /\ recording' = Append(recording, e.op)
             /\ now' = [now EXCEPT ![Free] = e.value]
  BY DEF DeclareResult
<1>2. PICK e : e = Expression(type, y, z)
  OBVIOUS
<1>3. Reads(e, type, y, z) /\ ExpressionFits(e)
  BY <1>1, <1>2, ExpressionReads, ExpressionKeeps
<1>4. /\ map' = [e.map EXCEPT ![Free] = e.result]
      /\ temps' = e.temps /\ cipher' = e.cipher /\ blocks' = e.blocks
      /\ recording' = Append(recording, e.op)
      /\ now' = [now EXCEPT ![Free] = e.value]
  BY <1>1, <1>2
<1>5. /\ phase = "record" /\ phase' = "record" /\ poisoned' = poisoned
      /\ moved' = moved /\ start' = start /\ plain' = plain /\ clobbered' = clobbered
      /\ live' = live \cup {Free} /\ Declaring
  BY DEF DeclareResult, Declaring, Executing
<1>6. /\ ResultsFirst /\ Intended /\ SourcesIntact
      /\ Free \in Locals /\ Free \notin live /\ Free \in Names /\ Free \in Entities
      /\ Free \notin Callers
  BY <1>5, FreeName DEF LambdaInv
<1> DEFINE n == Len(recording)
<1>7. /\ n \in Nat /\ Len(recording') = n + 1 /\ recording'[n + 1] = e.op
      /\ \A k \in 1..n : recording'[k] = recording[k]
  BY <1>4, OneMoreIs
<1>8. Growing
  <2>1. Len(temps) <= Len(temps') /\ \A k \in 1..Len(temps) : temps'[k] = temps[k]
    BY <1>3, <1>4 DEF Reads, ExpressionFits
  <2>2. QED
    BY <1>7, <2>1 DEF Growing
<1> HIDE DEF n
<1>9. Computed(e)
  <2>1. Len(recording) + 1 <= Len(recording') /\ recording'[Len(recording) + 1] = e.op
    BY <1>7 DEF n
  <2>2. QED
    BY <1>3, <1>4, <1>5, <1>6, <1>8, <2>1, ExpressionComputed
<1>10. /\ \A f \in Entities : f # Free => /\ map'[f] \in {map[f], f}
                                          /\ Canonical(map', f) = Canonical(map, f)
       /\ map'[Free] = e.result /\ Canonical(map', Free) = e.result
  <2>1. \A f \in Entities : e.map[f] \in {map[f], f} /\ Canonical(e.map, f) = Canonical(map, f)
    BY <1>3 DEF Reads
  <2>2. DOMAIN e.map = Entities
    BY <1>3 DEF ExpressionFits, Registered
  <2>3. e.result # Nothing
    <3>1. Computed(e) /\ \A k \in DOMAIN temps' : k \in 1..MaxTemps
      <4>1. temps' \in Seq(TempKinds) /\ Len(temps') <= MaxTemps
        BY DEF RunInv, RecordedTyped
      <4>2. QED
        BY <1>9, <4>1, EntityFacts
    <3>2. QED
      BY <3>1, EntityFacts DEF Computed
  <2>4. map'[Free] = e.result /\ \A f \in Entities : f # Free => map'[f] = e.map[f]
    BY <1>4, <1>6, <2>2
  <2>5. QED
    BY <2>1, <2>3, <2>4 DEF Canonical
<1>11. ResultsFirst'
  <2>1. \A k \in (Len(recording) + 1)..Len(recording') : OperationFits(temps', recording', k)
    <3> TAKE k \in (Len(recording) + 1)..Len(recording')
    <3>1. k = Len(recording) + 1
      BY <1>7 DEF n
    <3>2. QED
      BY <1>9, <3>1 DEF Computed
  <2>2. /\ \A f \in Names : map'[f] \in {map[f], f, Nothing} \/ ResultIn(temps', map'[f])
        /\ \A f \in Callers : map'[f] \in {map[f], f, Nothing}
    <3>1. ResultIn(temps', e.result)
      BY <1>3, <1>4, <1>9 DEF Reads, Computed, ResultIn
    <3>2. QED
      BY <1>6, <1>10, <3>1, EntityFacts
  <2>3. \A f \in (Len(temps) + 1)..Len(temps') :
          ResultIn(temps', f) => WrittenIn(recording', f, Len(recording'))
    BY <1>7, <1>9 DEF Computed, n
  <2>4. QED
    BY <1>6, <1>8, <2>1, <2>2, <2>3, ResultsStill DEF Growing
<1>12. SourcesIntact'
  <2>1. \A c \in Callers : cipher'[c] = cipher[c]
    BY <1>3, <1>4, <1>5, MadeApart DEF ExpressionFits
  <2>2. Encrypting
    BY <1>3, <1>4, ExpressionEncrypts
  <2>3. live' \cap Callers \subseteq live
    BY <1>5, <1>6
  <2>4. QED
    BY <1>5, <1>6, <1>8, <2>1, <2>2, <2>3, SourcesKept
<1>13. Intended'
  <2>1. PICK v : v = e.value
    OBVIOUS
  <2>2. ~poisoned /\ ~clobbered => After'[Len(recording')][Canonical(map', Free)] = v
    BY <1>7, <1>9, <1>10, <2>1 DEF Computed, n
  <2>3. \A f \in Names \cup DOMAIN temps :
          After'[Len(recording')][f] = After[Len(recording)][f]
    BY <1>7, <1>9 DEF Computed, n
  <2>4. \A f \in live : Canonical(map', f) = Canonical(map, f)
    <3>1. \A f \in live : f \in Entities /\ f # Free
      BY <1>6, UsableNames
    <3>2. QED
      BY <1>10, <3>1
  <2>5. QED
    BY <1>4, <1>5, <1>6, <2>1, <2>2, <2>3, <2>4, DeclaredMeans
<1>14. QED
  BY <1>11, <1>12, <1>13 DEF LambdaInv

(* Nothing was recorded.                                                    *)
LEMMA SameMeaning ==
  ASSUME RunInv, recording' = recording
  PROVE  After' = After
<1>1. recording \in Seq(Recordable) /\ Len(recording) \in Nat
  BY DEF RunInv, RecordedTyped
<1>2. After = Replay(recording)
  BY <1>1, Zenon DEF After, Replay, Replays, Stepped, Initially
<1>3. After' = Replay(recording')
  BY <1>1, Zenon DEF After, Replay, Replays, Stepped, Initially
<1>4. QED
  BY <1>2, <1>3

LEMMA MeantDeclareVariable ==
  ASSUME RunInv, RunInv', LambdaInv, DeclareVariable
  PROVE  LambdaInv'
<1>1. /\ \/ cipher' = cipher /\ blocks' = blocks /\ map' = map
         \/ /\ cipher' = [cipher EXCEPT ![Free] = Len(blocks) + 1]
            /\ blocks' = Append(blocks, Encrypted(Free))
            /\ map' = Tracked(map, {Free})
      /\ now' = [now EXCEPT ![Free] = <<Free>>]
  BY DEF DeclareVariable
<1>2. /\ phase = "record" /\ phase' = "record" /\ poisoned' = poisoned
      /\ moved' = moved /\ start' = start /\ plain' = plain /\ clobbered' = clobbered
      /\ temps' = temps /\ recording' = recording
      /\ live' = live \cup {Free} /\ Declaring
  BY DEF DeclareVariable, Declaring, Executing
<1>3. /\ ResultsFirst /\ Intended /\ SourcesIntact
      /\ Free \in Locals /\ Free \notin live /\ Free \in Names /\ Free \in Entities
      /\ Free \notin Callers /\ Free # Nothing
  BY <1>2, FreeName, EntityFacts DEF LambdaInv
<1>4. Free \notin 1..Len(temps) /\ map[Free] = Nothing
  <2>1. Registered(map, live, Len(temps))
    BY DEF RunInv
  <2>2. Free \notin 1..Len(temps)
    <3>1. \A k \in 1..Len(temps) : k \in 1..MaxTemps
      BY UsableNames, EntityFacts
    <3>2. QED
      BY <1>3, <3>1, EntityFacts
  <2>3. QED
    BY <1>3, <2>1, <2>2 DEF Registered
<1>5. \A f \in Entities : map'[f] \in {map[f], f} /\ Canonical(map', f) = Canonical(map, f)
  <2>1. CASE map' = map
    BY <2>1
  <2>2. CASE map' = Tracked(map, {Free})
    <3>1. PICK S : S = {Free}
      OBVIOUS
    <3>2. map' = Tracked(map, S)
      BY <2>2, <3>1
    <3>3. QED
      BY <3>2, TrackedCanonical
  <2>3. QED
    BY <1>1, <2>1, <2>2
<1>6. Growing
  BY <1>2, <1>3, NamesOfStatement DEF Growing
<1>7. ResultsFirst'
  <2>1. /\ \A k \in (Len(recording) + 1)..Len(recording') : OperationFits(temps', recording', k)
        /\ \A f \in (Len(temps) + 1)..Len(temps') :
             ResultIn(temps', f) => WrittenIn(recording', f, Len(recording'))
    BY <1>2, <1>3, NamesOfStatement
  <2>2. /\ \A f \in Names : map'[f] \in {map[f], f, Nothing} \/ ResultIn(temps', map'[f])
        /\ \A f \in Callers : map'[f] \in {map[f], f, Nothing}
    BY <1>5, EntityFacts
  <2>3. QED
    BY <1>3, <1>6, <2>1, <2>2, ResultsStill DEF Growing
<1>8. Encrypting
  <2>1. CASE cipher' = cipher /\ blocks' = blocks
    BY <1>2, <1>3, <2>1, NamesOfStatement DEF Encrypting
  <2>2. CASE /\ cipher' = [cipher EXCEPT ![Free] = Len(blocks) + 1]
             /\ blocks' = Append(blocks, Encrypted(Free))
    <3>1. Free \notin DOMAIN temps
      BY <1>4, UsableNames
    <3>2. \A l \in (Len(temps) + 1)..Len(temps') : l = Free \/ temps'[l] = "result"
      BY <1>2, <1>3, NamesOfStatement
    <3>3. /\ Free \notin Callers /\ Free \notin DOMAIN temps
          /\ cipher' = [cipher EXCEPT ![Free] = Len(blocks) + 1]
          /\ blocks' = Append(blocks, Block(Len(blocks) + 1, "ours", <<Free>>))
      BY <1>3, <2>2, <3>1 DEF Encrypted
    <3>4. QED
      BY <1>3, <3>2, <3>3 DEF Encrypting
  <2>3. QED
    BY <1>1, <2>1, <2>2
<1>9. SourcesIntact'
  <2>1. \A c \in Callers : cipher'[c] = cipher[c]
    BY <1>1, <1>2, <1>3, MadeApart DEF Encrypted
  <2>2. live' \cap Callers \subseteq live
    BY <1>2, <1>3
  <2>3. QED
    BY <1>2, <1>3, <1>6, <1>8, <2>1, <2>2, SourcesKept
<1>10. Intended'
  <2>1. PICK v : v = <<Free>>
    OBVIOUS
  <2>2. After' = After
    BY <1>2, SameMeaning
  <2>3. ~poisoned' /\ ~clobbered => After'[Len(recording')][Canonical(map', Free)] = v
    <3> SUFFICES ASSUME ~poisoned
                 PROVE  After[Len(recording)][Canonical(map, Free)] = <<Free>>
      BY <1>2, <1>3, <1>5, <2>1, <2>2
    <3>1. Canonical(map, Free) = Free
      BY <1>4 DEF Canonical
    <3>2. QED
      BY <1>3, <1>4, <3>1, UnmentionedAfter
  <2>4. \A f \in live : Canonical(map', f) = Canonical(map, f)
    BY <1>5, UsableNames
  <2>5. \A f \in Names \cup DOMAIN temps :
          After'[Len(recording')][f] = After[Len(recording)][f]
    BY <1>2, <2>2
  <2>6. ~poisoned' => ~poisoned
    BY <1>2
  <2>7. now' = [now EXCEPT ![Free] = v] /\ moved \subseteq moved'
    BY <1>1, <1>2, <2>1
  <2>8. QED
    BY <1>2, <1>3, <2>3, <2>4, <2>5, <2>6, <2>7, DeclaredMeans
<1>11. QED
  BY <1>7, <1>9, <1>10 DEF LambdaInv

-----------------------------------------------------------------------------
(* Destruction, and the end of the lambda.                                  *)

(* Destruction forgets names, never what the others stand for.              *)
LEMMA MeantDestroyed ==
  ASSUME RunInv, RunInv', LambdaInv, NEW S, S \subseteq Names, Destroyed(S),
         phase = "record", phase' \in {"record", "optimize", "throw"},
         phase' = "optimize" => live' \subseteq Callers,
         UNCHANGED <<temps, recording, blocks, start, now, clobbered>>
  PROVE  LambdaInv'
<1>1. /\ poisoned' = (poisoned \/ \E n \in S : map[n] = n)
      /\ map' = [e \in Entities |-> IF e \in S THEN Nothing ELSE map[e]]
      /\ live' = live \ S /\ moved' = moved \ S
      /\ cipher' = [e \in Entities |-> IF e \in S THEN 0 ELSE cipher[e]]
  BY DEF Destroyed
<1>2. ResultsFirst /\ Intended /\ SourcesIntact
  BY DEF LambdaInv
<1>3. Growing
  BY <1>2, NamesOfStatement DEF Growing
<1>4. ResultsFirst'
  <2>1. /\ \A k \in (Len(recording) + 1)..Len(recording') : OperationFits(temps', recording', k)
        /\ \A f \in (Len(temps) + 1)..Len(temps') :
             ResultIn(temps', f) => WrittenIn(recording', f, Len(recording'))
    BY <1>2, NamesOfStatement
  <2>2. /\ \A f \in Names : map'[f] \in {map[f], f, Nothing} \/ ResultIn(temps', map'[f])
        /\ \A f \in Callers : map'[f] \in {map[f], f, Nothing}
    BY <1>1, EntityFacts
  <2>3. QED
    BY <1>2, <1>3, <2>1, <2>2, ResultsStill DEF Growing
<1>5. SourcesIntact'
  <2>1. \A c \in (live' \cap Callers) \ moved' : c \in live \ moved /\ cipher'[c] = cipher[c]
    BY <1>1, EntityFacts
  <2>2. ~poisoned' => ~poisoned /\ moved' \cap Callers \subseteq moved
    BY <1>1
  <2>3. Encrypting
    <3>1. \A k \in 1..Len(temps) : k \in Entities /\ k \notin S
      <4>1. \A k \in 1..Len(temps) : k \in 1..MaxTemps
        BY EntityFacts, UsableNames
      <4>2. QED
        BY <4>1, EntityFacts
    <3>2. \A k \in 1..Len(temps) : cipher'[k] = cipher[k]
      BY <1>1, <3>1
    <3>3. \A k \in (Len(temps) + 1)..Len(temps') : temps'[k] = "result"
      BY <1>2, NamesOfStatement
    <3>4. QED
      BY <3>2, <3>3 DEF Encrypting
  <2>4. QED
    BY <1>2, <1>3, <2>1, <2>2, <2>3, SourcesStill DEF Growing
<1>6. Intended'
  <2>1. DOMAIN now' = Names
    BY <1>2 DEF Intended
  <2>2. After' = After
    BY SameMeaning
  <2>3. ASSUME phase' \in Underway, ~poisoned', ~clobbered', NEW n \in live' \ moved'
        PROVE  now'[n] = After'[Len(recording')][Canonical(map', n)]
    <3>1. n \in live \ moved /\ n \notin S /\ ~poisoned /\ ~clobbered /\ n \in Entities
      BY <1>1, <2>3, UsableNames
    <3>2. Symbolic(n)
      BY <1>2, <3>1 DEF Intended, Underway
    <3>3. Canonical(map', n) = Canonical(map, n)
      BY <1>1, <3>1 DEF Canonical
    <3>4. QED
      BY <2>2, <3>2, <3>3 DEF Symbolic
  <2>4. QED
    BY <2>1, <2>3 DEF Intended, Symbolic, Canonical, Underway, Translating
<1>7. QED
  BY <1>4, <1>5, <1>6 DEF LambdaInv

LEMMA MeantDie ==
  ASSUME RunInv, RunInv', LambdaInv, Die
  PROVE  LambdaInv'
<1>1. PICK n \in live : Destroyed({n})
  BY DEF Die
<1>2. PICK S : S = {n}
  OBVIOUS
<1>3. S \subseteq Names /\ Destroyed(S)
  BY <1>1, <1>2, UsableNames
<1>4. UNCHANGED <<phase, temps, recording, blocks, start, now, clobbered>> /\ phase = "record"
  BY DEF Die, Executing
<1>5. QED
  BY <1>3, <1>4, MeantDestroyed

LEMMA MeantEndLambda ==
  ASSUME RunInv, RunInv', LambdaInv, EndLambda
  PROVE  LambdaInv'
<1>1. PICK S : S = live \cap Locals
  OBVIOUS
<1>2. S \subseteq Names /\ Destroyed(S)
  BY <1>1, UsableNames DEF EndLambda
<1>3. /\ UNCHANGED <<temps, recording, blocks, start, now, clobbered>> /\ phase = "record"
      /\ phase' \in {"optimize", "throw"}
  BY DEF EndLambda
<1>4. live' \subseteq Callers
  BY <1>1, <1>2, UsableNames DEF Destroyed, Names
<1>5. QED
  BY <1>2, <1>3, <1>4, MeantDestroyed

-----------------------------------------------------------------------------
(* A result under another name: a copy of it, or what y was moved into.     *)
LEMMA MeantNamedAgain ==
  ASSUME RunInv, RunInv', LambdaInv, Declaring, phase' = "record",
         NEW y \in Usable, live' = live \cup {Free},
         \/ /\ SharedOwned(Canonical(map, y)) /\ poisoned' = poisoned
            /\ map' = [map EXCEPT ![Free] = Canonical(map, y)]
         \/ poisoned' = TRUE /\ map' = map,
         now' = [now EXCEPT ![Free] = now[y]],
         moved \subseteq moved', ~poisoned' => moved' \cap Callers \subseteq moved,
         \A c \in (Callers \ moved') \cup DOMAIN temps : cipher'[c] = cipher[c],
         UNCHANGED <<temps, recording, blocks, start, clobbered>>
  PROVE  LambdaInv'
<1>1. /\ ResultsFirst /\ Intended /\ SourcesIntact /\ phase = "record"
      /\ Free \in Locals /\ Free \notin live /\ Free \in Names /\ Free \in Entities
      /\ Free \notin Callers /\ Nothing \notin Entities
      /\ y \in live \ moved /\ y \in live /\ y \in Entities
  BY FreeName, UsableNames, EntityFacts DEF LambdaInv, Declaring, Executing, Usable
<1> DEFINE source == Canonical(map, y)
<1>2. source \in Entities /\ (source \in DOMAIN temps => ResultIn(temps, source))
  BY <1>1, CanonicalFits
<1>3. map \in [Entities -> Entities \cup {Nothing}]
  BY DEF RunInv, Registered
<1>4. Growing
  BY <1>1, NamesOfStatement DEF Growing
<1>5. \A f \in Entities : f # Free => map'[f] = map[f]
  BY <1>1, <1>3
<1>6. map'[Free] = map[Free] \/ ResultIn(temps', map'[Free])
  BY <1>1, <1>2, <1>3 DEF SharedOwned
<1>7. ResultsFirst'
  <2>1. /\ \A k \in (Len(recording) + 1)..Len(recording') : OperationFits(temps', recording', k)
        /\ \A f \in (Len(temps) + 1)..Len(temps') :
             ResultIn(temps', f) => WrittenIn(recording', f, Len(recording'))
    BY <1>1, NamesOfStatement
  <2>2. /\ \A f \in Names : map'[f] \in {map[f], f, Nothing} \/ ResultIn(temps', map'[f])
        /\ \A f \in Callers : map'[f] \in {map[f], f, Nothing}
    BY <1>1, <1>5, <1>6, EntityFacts
  <2>3. QED
    BY <1>1, <1>4, <2>1, <2>2, ResultsStill DEF Growing
<1>8. SourcesIntact'
  <2>1. \A c \in (live' \cap Callers) \ moved' : c \in live \ moved /\ cipher'[c] = cipher[c]
    BY <1>1
  <2>2. ~poisoned' => ~poisoned /\ moved' \cap Callers \subseteq moved
    OBVIOUS
  <2>3. Encrypting
    <3>1. \A k \in 1..Len(temps) : cipher'[k] = cipher[k]
      BY UsableNames
    <3>2. \A k \in (Len(temps) + 1)..Len(temps') : temps'[k] = "result"
      BY <1>1, NamesOfStatement
    <3>3. QED
      BY <3>1, <3>2 DEF Encrypting
  <2>4. QED
    BY <1>1, <1>4, <2>1, <2>2, <2>3, SourcesStill DEF Growing
<1>9. Intended'
  <2>1. PICK v : v = now[y]
    OBVIOUS
  <2>2. After' = After
    BY SameMeaning
  <2>3. ~poisoned' /\ ~clobbered => After'[Len(recording')][Canonical(map', Free)] = v
    <3> SUFFICES ASSUME ~poisoned', ~clobbered
                 PROVE  After[Len(recording)][Canonical(map', Free)] = now[y]
      BY <2>1, <2>2
    <3>1. ~poisoned /\ map' = [map EXCEPT ![Free] = source]
      OBVIOUS
    <3>2. map'[Free] = source /\ source # Nothing
      BY <1>1, <1>2, <1>3, <3>1
    <3>3. Canonical(map', Free) = source
      BY <3>2 DEF Canonical
    <3>4. Symbolic(y)
      BY <1>1, <3>1 DEF Intended, Underway
    <3>5. QED
      BY <3>3, <3>4 DEF Symbolic
  <2>4. \A f \in live : Canonical(map', f) = Canonical(map, f)
    <3>1. \A f \in live : f \in Entities /\ f # Free
      BY <1>1, UsableNames
    <3>2. QED
      BY <1>5, <3>1 DEF Canonical
  <2>5. \A f \in Names \cup DOMAIN temps :
          After'[Len(recording')][f] = After[Len(recording)][f]
    BY <2>2
  <2>6. (~poisoned' => ~poisoned) /\ now' = [now EXCEPT ![Free] = v] /\ clobbered' = clobbered
    BY <2>1
  <2>7. QED
    BY <1>1, <2>3, <2>4, <2>5, <2>6, DeclaredMeans
<1>10. QED
  BY <1>7, <1>8, <1>9 DEF LambdaInv

LEMMA MeantDeclareCopy ==
  ASSUME RunInv, RunInv', LambdaInv, DeclareCopy
  PROVE  LambdaInv'
<1>1. PICK y \in Usable :
        LET source == Canonical(map, y) IN
          IF SharedOwned(source)
            THEN /\ map' = [map EXCEPT ![Free] = source]
                 /\ live' = live \cup {Free}
                 /\ now' = [now EXCEPT ![Free] = now[y]]
                 /\ UNCHANGED <<phase, poisoned, moved, cipher, plain>>
            ELSE /\ phase' = "throw"
                 /\ Destroyed(live \cap Locals)
                 /\ UNCHANGED now
  BY DEF DeclareCopy
<1>2. /\ UNCHANGED <<temps, recording, blocks, start, clobbered>>
      /\ phase = "record" /\ Declaring
  BY DEF DeclareCopy, Declaring, Executing
<1>3. CASE SharedOwned(Canonical(map, y))
  <2>1. /\ map' = [map EXCEPT ![Free] = Canonical(map, y)]
        /\ live' = live \cup {Free}
        /\ now' = [now EXCEPT ![Free] = now[y]]
        /\ phase' = phase /\ poisoned' = poisoned /\ moved' = moved /\ cipher' = cipher
    BY <1>1, <1>3
  <2>2. QED
    BY <1>2, <1>3, <2>1, MeantNamedAgain
<1>4. CASE ~SharedOwned(Canonical(map, y))
  <2>1. phase' = "throw" /\ Destroyed(live \cap Locals) /\ now' = now
    BY <1>1, <1>4
  <2>2. PICK S : S = live \cap Locals
    OBVIOUS
  <2>3. S \subseteq Names /\ Destroyed(S)
    BY <2>1, <2>2, UsableNames
  <2>4. QED
    BY <1>2, <2>1, <2>3, MeantDestroyed
<1>5. QED
  BY <1>3, <1>4

LEMMA MeantDeclareMoved ==
  ASSUME RunInv, RunInv', LambdaInv, DeclareMoved
  PROVE  LambdaInv'
<1>1. PICK y \in Usable :
        LET source == Canonical(map, y) IN
          /\ IF SharedOwned(source)
               THEN map' = [map EXCEPT ![Free] = source] /\ UNCHANGED poisoned
               ELSE poisoned' = TRUE /\ UNCHANGED map
          /\ cipher' = [cipher EXCEPT ![Free] = cipher[y], ![y] = 0]
          /\ now' = [now EXCEPT ![Free] = now[y]]
          /\ moved' = moved \cup {y}
  BY DEF DeclareMoved
<1>2. /\ UNCHANGED <<temps, recording, blocks, start, clobbered>>
      /\ phase = "record" /\ phase' = "record" /\ Declaring /\ live' = live \cup {Free}
  BY DEF DeclareMoved, Declaring, Executing
<1>3. /\ y \in live /\ y \in Names /\ y \in Entities /\ Free \in Names /\ Free \in Entities
      /\ Free \notin Callers
      /\ cipher \in [Entities -> 0..Len(blocks)]
  BY <1>2, FreeName, UsableNames DEF RunInv, StoreTyped
<1>4. \A k \in DOMAIN temps : k \in 1..MaxTemps /\ k \in Entities /\ k \notin Names
  BY UsableNames, EntityFacts
<1>5. ~poisoned' => moved' \cap Callers \subseteq moved
  <2> SUFFICES ASSUME y \in Callers
               PROVE  poisoned'
    BY <1>1
  <2>1. map[y] \in {y, Nothing}
    BY DEF LambdaInv, ResultsFirst, NamesFit
  <2>2. Canonical(map, y) = y
    BY <2>1 DEF Canonical
  <2>3. ~SharedOwned(Canonical(map, y))
    BY <1>3, <1>4, <2>2 DEF SharedOwned
  <2>4. QED
    BY <1>1, <2>3
<1>6. \A c \in (Callers \ moved') \cup DOMAIN temps : cipher'[c] = cipher[c]
  <2> TAKE c \in (Callers \ moved') \cup DOMAIN temps
  <2>1. c # y /\ c # Free /\ c \in Entities
    BY <1>1, <1>3, <1>4, EntityFacts
  <2>2. QED
    BY <1>1, <1>3, <2>1
<1>7. \/ /\ SharedOwned(Canonical(map, y)) /\ poisoned' = poisoned
         /\ map' = [map EXCEPT ![Free] = Canonical(map, y)]
      \/ poisoned' = TRUE /\ map' = map
  BY <1>1
<1>8. moved \subseteq moved' /\ now' = [now EXCEPT ![Free] = now[y]]
  BY <1>1
<1>9. QED
  BY <1>2, <1>5, <1>6, <1>7, <1>8, MeantNamedAgain

LEMMA MeantRecord ==
  ASSUME RunInv, RunInv', LambdaInv, Record
  PROVE  LambdaInv' /\ phase' \in {"record", "optimize", "throw"}
<1>1. CASE Statement
  <2>1. phase' \in {"record", "optimize", "throw"}
    BY <1>1 DEF Statement, AssignResult, AssignCopy, AssignConstant, DeclareResult,
       DeclareVariable, DeclareCopy, DeclareMoved, Die, Declaring, Executing
  <2>2. QED
    BY <1>1, <2>1, MeantAssignResult, MeantAssignCopy, MeantAssignConstant,
       MeantDeclareResult, MeantDeclareVariable, MeantDeclareCopy, MeantDeclareMoved,
       MeantDie DEF Statement
<1>2. CASE EndLambda
  <2>1. phase' \in {"record", "optimize", "throw"}
    BY <1>2 DEF EndLambda
  <2>2. QED
    BY <1>2, <2>1, MeantEndLambda
<1>3. QED
  BY <1>1, <1>2 DEF Record

-----------------------------------------------------------------------------
(* The start and the end of translation.                                    *)

LEMMA MeantInit ==
  ASSUME Init, RunInv
  PROVE  MeaningInv
<1>1. /\ start \in Starts /\ phase = "record" /\ temps = << >> /\ recording = << >>
      /\ cipher = [e \in Entities |->
                     IF e \in Callers /\ start.owner[e] # Nothing THEN Index[e] ELSE 0]
      /\ blocks = [b \in 1..Cardinality(Callers) |->
                     LET c == CHOOSE d \in Callers : Index[d] = b
                     IN  Block(b, start.owner[c], <<c>>)]
      /\ map = [e \in Entities |-> IF e \in start.known THEN e ELSE Nothing]
      /\ now = [n \in Names |-> <<n>>]
      /\ ~poisoned /\ live = Callers /\ moved = {} /\ next = 1 /\ evaluated = {}
  BY DEF Init, RecordingInit, GraphInit
<1>2. DOMAIN temps = {} /\ Len(recording) = 0 /\ DOMAIN recording = {}
  BY <1>1
<1>3. \A f \in Entities : map[f] \in {f, Nothing} /\ Canonical(map, f) = f
  BY <1>1 DEF Canonical
<1>4. ResultsFirst
  <2>1. \A n \in Names : map[n] \in DOMAIN temps => ResultIn(temps, map[n])
    BY <1>2
  <2>2. \A c \in Callers : map[c] \in {c, Nothing}
    BY <1>3, EntityFacts
  <2>3. QED
    BY <1>2, <2>1, <2>2 DEF ResultsFirst, NamesFit
<1>5. SourcesIntact
  <2>1. ASSUME NEW c \in Sources
        PROVE  Original(c)
    <3>1. c \in Callers /\ start.owner[c] # Nothing /\ c \in Entities
      BY <1>1, <1>2, <2>1, EntityFacts DEF Sources
    <3>2. cipher[c] = Index[c] /\ Index[c] \in 1..Cardinality(Callers)
          /\ Cardinality(Callers) \in Nat
      BY <1>1, <3>1, IndexInjective
    <3>3. (CHOOSE d \in Callers : Index[d] = Index[c]) = c
      BY <3>1, IndexInjective
    <3>4. blocks[Index[c]] = Block(Index[c], start.owner[c], <<c>>)
          /\ Index[c] \in DOMAIN blocks
      BY <1>1, <3>2, <3>3
    <3>5. blocks[Index[c]].holds = <<c>> /\ Index[c] # 0
      BY <3>2, <3>4 DEF Block
    <3>6. QED
      BY <3>2, <3>4, <3>5 DEF Original, IsEncrypted
  <2>2. QED
    BY <1>1, <2>1 DEF SourcesIntact, Translating
<1>6. Intended
  <2>1. \A e \in Entities : After[0][e] = <<e>>
    <3>1. recording \in Seq(Recordable)
      BY DEF RunInv, RecordedTyped
    <3>2. QED
      BY <3>1, AfterFacts
  <2>2. \A n \in Names : n \in Entities /\ now[n] = <<n>>
    BY <1>1, EntityFacts
  <2>3. \A n \in live \ moved : Symbolic(n)
    <3>1. \A n \in live : n \in Names
      BY <1>1, EntityFacts
    <3>2. QED
      BY <1>2, <1>3, <2>1, <2>2, <3>1 DEF Symbolic
  <2>4. QED
    BY <1>1, <2>3 DEF Intended
<1>7. QED
  BY <1>1, <1>4, <1>5, <1>6 DEF MeaningInv, LambdaInv, Unstarted, Translating

(* After the lambda nothing of this changes before endRun.                  *)
LEMMA LambdaKept ==
  ASSUME RunInv, LambdaInv, phase \in {"optimize"} \cup Translating,
         UNCHANGED <<temps, recording, recordingVars>>,
         phase' \in Translating \cup {"return", "throw"},
         phase = "evaluate" /\ phase' \in Translating => phase' = "evaluate",
         phase' \in Translating => UNCHANGED store \/ (phase' = "evaluate" /\ ~start.runtime)
  PROVE  LambdaInv'
<1>1. UNCHANGED <<start, map, poisoned, live, moved, now, clobbered>>
  BY DEF recordingVars, userVars
<1>2. ResultsFirst'
  <2>1. ResultsFirst
    BY DEF LambdaInv
  <2>2. QED
    BY <1>1, <2>1 DEF ResultsFirst, OperationFits, NamesFit, ResultIn, ScalarIn, WrittenIn,
       Mentions, Target
<1>3. SourcesIntact'
  <2>1. SourcesIntact
    BY DEF LambdaInv
  <2>2. phase \in Underway /\ (phase \in {"optimize"} \cup Translating)
    BY DEF Underway
  <2>3. phase' \in Underway => phase' \in Translating
    BY DEF Underway, Translating
  <2>4. phase' \in Translating /\ (start.runtime \/ phase' # "evaluate") =>
          \A e \in Sources' : Original(e)'
    <3> SUFFICES ASSUME phase' \in Translating, start.runtime \/ phase' # "evaluate"
                 PROVE  \A e \in Sources' : Original(e)'
      OBVIOUS
    <3>1. UNCHANGED <<cipher, blocks>>
      BY DEF store
    <3>2. start.runtime \/ phase # "evaluate"
      OBVIOUS
    <3>3. \A e \in Sources : Original(e)
      BY <2>1, <2>2, <3>2 DEF SourcesIntact
    <3>4. Sources' = Sources
      BY <1>1 DEF Sources
    <3>5. QED
      BY <3>1, <3>3, <3>4 DEF Original, IsEncrypted
  <2>5. QED
    BY <1>1, <2>1, <2>2, <2>3, <2>4 DEF SourcesIntact
<1>4. Intended'
  <2>1. Intended /\ phase \in Underway
    BY DEF LambdaInv, Underway
  <2>2. After' = After
    BY SameMeaning
  <2>3. QED
    BY <1>1, <2>1, <2>2 DEF Intended, Symbolic, Canonical
<1>5. QED
  BY <1>2, <1>3, <1>4 DEF LambdaInv

(* A caller's variable stands for itself, and is still what it was when     *)
(* translation starts.                                                     *)
LEMMA CallerStands ==
  ASSUME RunInv, LambdaInv, phase \in {"optimize"} \cup Translating, ~poisoned, ~clobbered,
         AllEncrypted, NEW c \in live \cap Callers
  PROVE  c \in Sources /\ c \in Entities /\ now[c] = After[Len(recording)][c]
<1>1. c \notin moved /\ c \in Entities
  BY EntityFacts DEF LambdaInv, SourcesIntact, Underway
<1>2. Canonical(map, c) = c
  BY DEF LambdaInv, ResultsFirst, NamesFit, Canonical
<1>3. Symbolic(c)
  BY <1>1 DEF LambdaInv, Intended, Underway
<1>4. c \in Sources
  BY <1>1 DEF Sources, AllEncrypted
<1>5. QED
  BY <1>1, <1>2, <1>3, <1>4 DEF Symbolic

LEMMA MeantOptimize ==
  ASSUME RunInv, RunInv', MeaningInv, Optimize
  PROVE  MeaningInv'
<1>1. /\ phase = "optimize" /\ UNCHANGED <<temps, recording, recordingVars>>
      /\ UNCHANGED store
      /\ UNCHANGED <<graph, next, evaluated, start, live, moved, now, clobbered, map>>
      /\ UNCHANGED <<plain, cipher, blocks>>
      /\ phase' = IF poisoned THEN "throw" ELSE IF recording = << >> THEN "return" ELSE "build"
  BY DEF Optimize, recordingVars, userVars, graphVars, store
<1>2. LambdaInv /\ next = 1 /\ evaluated = {}
  BY <1>1 DEF MeaningInv, Unstarted
<1>3. LambdaInv'
  BY <1>1, <1>2, LambdaKept DEF Translating
<1>4. Unstarted'
  BY <1>1, <1>2 DEF Unstarted
<1>5. recording \in Seq(Recordable) /\ Len(recording) \in Nat /\ graph = EmptyGraph
      /\ \A e \in Entities : After[0][e] = <<e>>
  <2>1. recording \in Seq(Recordable)
    BY DEF RunInv, RecordedTyped
  <2>2. QED
    BY <1>1, <2>1, AfterFacts DEF RunInv, Staged
<1>6. CASE phase' = "build"
  <2>1. Built' = 0
    BY <1>1, <1>2, <1>6 DEF Built
  <2>2. /\ graph'.nodes = << >> /\ graph'.roots = << >>
        /\ \A e \in Entities : graph'.of[e] = NoNode
    BY <1>1, <1>5 DEF EmptyGraph
  <2>3. DOMAIN graph'.nodes = {} /\ Len(graph'.roots) = 0 /\ 1..0 = {}
    BY <2>2
  <2>4. GraphMeans'
    BY <1>1, <1>5, <2>1, <2>2, <2>3
       DEF GraphMeans, GraphMeansIn, RootsMean, NodesMean, EntitiesMean, WrittenBefore, WrittenIn
  <2>5. QED
    BY <1>3, <1>4, <1>6, <2>4 DEF MeaningInv
<1>7. CASE phase' = "return"
  <2>1. ~poisoned /\ Len(recording) = 0
    BY <1>1, <1>7
  <2>2. ~clobbered /\ AllEncrypted => Delivered
    <3> SUFFICES ASSUME ~clobbered, AllEncrypted, NEW c \in live \cap Callers
                 PROVE  Holds(c) = now[c]
      BY DEF Delivered
    <3>1. c \in Sources /\ c \in Entities /\ now[c] = <<c>>
      BY <1>1, <1>2, <1>5, <2>1, CallerStands
    <3>2. Original(c)
      BY <1>1, <1>2, <3>1 DEF LambdaInv, SourcesIntact, Underway
    <3>3. QED
      BY <3>1, <3>2 DEF Original, Holds
  <2>3. AllEncrypted' = AllEncrypted /\ Delivered' = Delivered /\ clobbered' = clobbered
    BY <1>1 DEF AllEncrypted, Delivered, Holds, IsEncrypted
  <2>4. QED
    BY <1>3, <1>4, <1>7, <2>2, <2>3 DEF MeaningInv, Translating
<1>8. CASE phase' = "throw"
  BY <1>3, <1>4, <1>8 DEF MeaningInv, Translating
<1>9. QED
  BY <1>1, <1>6, <1>7, <1>8

LEMMA MeantEndRun ==
  ASSUME RunInv, RunInv', MeaningInv, EndRun
  PROVE  MeaningInv'
<1>1. /\ phase \in {"return", "throw"} /\ phase' = IF phase = "return" THEN "ok" ELSE "failed"
      /\ recording' = << >> /\ temps' = << >>
      /\ cipher' = [e \in Entities |-> IF e \in Callers THEN cipher[e] ELSE 0]
      /\ plain' = plain /\ blocks' = blocks /\ start' = start
      /\ live' = live /\ moved' = moved /\ now' = now /\ clobbered' = clobbered
      /\ next' = next /\ evaluated' = evaluated
      /\ map' = [e \in Entities |-> Nothing]
  BY DEF EndRun, Ending, userVars, graphVars
<1>2. LambdaInv'
  <2>1. DOMAIN temps' = {} /\ DOMAIN recording' = {} /\ Len(recording') = 0
    BY <1>1
  <2>2. \A n \in Entities : map'[n] = Nothing
    BY <1>1
  <2>3. NamesFit(temps', map')
    BY <2>1, <2>2, EntityFacts DEF NamesFit
  <2>4. ResultsFirst'
    BY <2>1, <2>3 DEF ResultsFirst
  <2>5. phase' \notin Underway
    BY <1>1 DEF Underway, Translating
  <2>6. SourcesIntact'
    BY <2>5 DEF SourcesIntact, Underway, Translating
  <2>7. Intended'
    BY <1>1, <2>5 DEF Intended, Underway, Translating, MeaningInv, LambdaInv
  <2>8. QED
    BY <2>4, <2>6, <2>7 DEF LambdaInv
<1>3. Unstarted'
  BY <1>1 DEF Unstarted, MeaningInv
<1>4. phase' = "ok" /\ ~clobbered' /\ AllEncrypted' => Delivered'
  <2> SUFFICES ASSUME phase' = "ok", ~clobbered, AllEncrypted, NEW c \in live \cap Callers
               PROVE  Holds(c)' = now[c]
    BY <1>1 DEF Delivered, AllEncrypted
  <2>1. phase = "return"
    BY <1>1
  <2>2. Delivered
    BY <2>1 DEF MeaningInv
  <2>3. cipher'[c] = cipher[c]
    BY <1>1, EntityFacts
  <2>4. QED
    BY <1>1, <2>2, <2>3 DEF Delivered, Holds, IsEncrypted
<1>5. QED
  BY <1>1, <1>2, <1>3, <1>4 DEF MeaningInv, Translating

-----------------------------------------------------------------------------
(* Building the graph.                                                      *)

(* Once the lambda has ended, translation leaves the recording and what it  *)
(* means alone.                                                            *)
LEMMA MeantRecorded ==
  ASSUME RunInv, RunInv', MeaningInv, Record
  PROVE  MeaningInv'
<1>1. LambdaInv' /\ phase' \in {"record", "optimize", "throw"}
  BY MeantRecord DEF MeaningInv
<1>2. UNCHANGED graphVars
  BY DEF Record
<1>3. phase = "record"
  BY DEF Record, Statement, EndLambda, AssignResult, AssignCopy, AssignConstant,
         DeclareResult, DeclareVariable, DeclareCopy, DeclareMoved, Die, Declaring, Executing
<1>4. next = 1 /\ evaluated = {}
  BY <1>3 DEF MeaningInv, Unstarted
<1>5. Unstarted'
  BY <1>1, <1>2, <1>4 DEF Unstarted, graphVars
<1>6. QED
  BY <1>1, <1>5 DEF MeaningInv, Translating

-----------------------------------------------------------------------------
(* The graph grows: what its nodes stood for they still stand for.          *)
NodesKept(g, h) ==
  /\ Len(g.nodes) \in Nat /\ DOMAIN g.nodes = 1..Len(g.nodes)
  /\ DOMAIN g.nodes \subseteq DOMAIN h.nodes
  /\ \A n \in DOMAIN g.nodes : h.nodes[n] = g.nodes[n]

LEMMA MeaningKept ==
  ASSUME NEW g, NEW h, NodesKept(g, h), NEW n \in DOMAIN g.nodes
  PROVE  MeaningIn(h, n) = MeaningIn(g, n)
BY DEF NodesKept, MeaningIn

LEMMA OperatorKept ==
  ASSUME NEW g, NEW h, GraphIn(g), NodesKept(g, h), NEW n \in DOMAIN g.nodes,
         NEW b \in Nat, NEW c \in Nat, b <= c,
         \A k \in 1..b : h.roots[k] = g.roots[k],
         g.nodes[n].op # 0, OperatorMeans(g, b, n)
  PROVE  OperatorMeans(h, c, n)
<1>1. PICK node : node = g.nodes[n] /\ h.nodes[n] = node
  BY DEF NodesKept
<1>2. NodeIn(n, node) /\ node.op # 0 /\ n \in 1..Len(g.nodes) /\ Len(g.nodes) \in Nat
  BY <1>1 DEF GraphIn, NodesKept
<1>3. node.children[1] \in DOMAIN g.nodes /\ node.children[2] \in DOMAIN g.nodes
  <2>1. node.children[1] \in 1..(n - 1) /\ node.children[2] \in 1..(n - 1)
    BY <1>2 DEF NodeIn
  <2>2. 1..(n - 1) \subseteq 1..Len(g.nodes)
    BY <1>2
  <2>3. QED
    BY <2>1, <2>2 DEF NodesKept
<1>4. PICK op, x, y : op = recording[node.op] /\ x = node.children[1] /\ y = node.children[2]
  OBVIOUS
<1>5. /\ node.op \in 1..b /\ g.roots[node.op] = n /\ node.entity = Target(op)
      /\ MeaningIn(g, x) = After[node.op - 1][op.operand1]
      /\ g.nodes[x].entity = op.operand1 /\ g.nodes[x].op < node.op
      /\ MeaningIn(g, y) = After[node.op - 1][op.operand2]
      /\ g.nodes[y].entity = op.operand2 /\ g.nodes[y].op < node.op
  BY <1>1, <1>4 DEF OperatorMeans
<1>6. /\ MeaningIn(h, x) = MeaningIn(g, x) /\ MeaningIn(h, y) = MeaningIn(g, y)
      /\ h.nodes[x] = g.nodes[x] /\ h.nodes[y] = g.nodes[y]
  BY <1>3, <1>4, MeaningKept DEF NodesKept
<1>7. node.op \in 1..c /\ h.roots[node.op] = n
  BY <1>5
<1>8. QED
  BY <1>1, <1>4, <1>5, <1>6, <1>7 DEF OperatorMeans

LEMMA NodesGrow ==
  ASSUME NEW g, NEW h, GraphIn(g), NodesKept(g, h), NEW b \in Nat, NEW c \in Nat, b <= c,
         \A k \in 1..b : h.roots[k] = g.roots[k], NodesMean(g, b),
         NEW m, DOMAIN h.nodes = DOMAIN g.nodes \cup {m},
         IF h.nodes[m].op = 0 THEN LeafMeans(h.nodes[m].entity) ELSE OperatorMeans(h, c, m)
  PROVE  NodesMean(h, c)
<1> SUFFICES ASSUME NEW n \in DOMAIN g.nodes
             PROVE  IF h.nodes[n].op = 0 THEN LeafMeans(h.nodes[n].entity)
                    ELSE OperatorMeans(h, c, n)
  BY DEF NodesMean
<1>1. h.nodes[n] = g.nodes[n]
  BY DEF NodesKept
<1>2. CASE g.nodes[n].op = 0
  BY <1>1, <1>2 DEF NodesMean
<1>3. CASE g.nodes[n].op # 0
  <2>1. OperatorMeans(g, b, n)
    BY <1>3 DEF NodesMean
  <2>2. OperatorMeans(h, c, n)
    BY <1>3, <2>1, OperatorKept
  <2>3. QED
    BY <1>1, <1>3, <2>2
<1>4. QED
  BY <1>2, <1>3

(* What a node means in a graph that means what was recorded is what its    *)
(* entity held after the operations so far, for the operations it writes.   *)
Extends(g, h, b) ==
  /\ GraphIn(h) /\ GraphMeansIn(h, b) /\ NodesKept(g, h) /\ h.roots = g.roots

LEMMA RootsStand ==
  ASSUME NEW g, NEW h, NEW b \in Nat, GraphIn(g), GraphMeansIn(g, b), NodesKept(g, h),
         h.roots = g.roots
  PROVE  RootsMean(h, b)
<1>1. RootsMean(g, b) /\ g.roots \in Seq(DOMAIN g.nodes)
  BY DEF GraphMeansIn, GraphIn
<1>2. \A k \in 1..b : g.roots[k] \in DOMAIN g.nodes
  BY <1>1 DEF RootsMean
<1>3. QED
  BY <1>1, <1>2 DEF RootsMean, NodesKept

LeafAdded(g, h, e, b) ==
  /\ h.nodes = Append(g.nodes, Leaf(e)) /\ h.roots = g.roots
  /\ \/ h.of = g.of
     \/ /\ h.of = [g.of EXCEPT ![e] = Len(g.nodes) + 1]
        /\ ~WrittenBefore(e, b) /\ After[b][e] = <<e>>

LEMMA LeafJoins ==
  ASSUME NEW g, NEW b \in Nat, GraphIn(g), GraphMeansIn(g, b), NEW e \in Entities, LeafMeans(e),
         NEW h, GraphIn(h), LeafAdded(g, h, e, b)
  PROVE  /\ Extends(g, h, b) /\ Len(h.nodes) = Len(g.nodes) + 1
         /\ Len(h.nodes) \in DOMAIN h.nodes
         /\ MeaningIn(h, Len(h.nodes)) = <<e>> /\ h.nodes[Len(h.nodes)] = Leaf(e)
<1>0. /\ h.nodes = Append(g.nodes, Leaf(e)) /\ h.roots = g.roots
      /\ \/ h.of = g.of
         \/ /\ h.of = [g.of EXCEPT ![e] = Len(g.nodes) + 1]
            /\ ~WrittenBefore(e, b) /\ After[b][e] = <<e>>
  BY DEF LeafAdded
<1>1. PICK node, o, p : node = Leaf(e) /\ o = g.nodes /\ p = h.nodes
  OBVIOUS
<1>2. o \in Seq(Range(o)) /\ p = Append(o, node)
  BY <1>0, <1>1 DEF GraphIn
<1>3. /\ Len(p) = Len(o) + 1 /\ p[Len(o) + 1] = node
      /\ \A k \in 1..Len(o) : p[k] = o[k]
      /\ Len(o) \in Nat /\ DOMAIN o = 1..Len(o) /\ DOMAIN p = 1..(Len(o) + 1)
  BY <1>2, SequenceGrows
<1>4. PICK m : m = Len(o) + 1
  OBVIOUS
<1>5. NodesKept(g, h) /\ DOMAIN p = DOMAIN o \cup {m} /\ m \notin DOMAIN o
  BY <1>1, <1>3, <1>4 DEF NodesKept
<1>6. node.op = 0 /\ node.entity = e
  BY <1>1 DEF Leaf, Node
<1>7. MeaningIn(h, m) = <<e>>
  BY <1>1, <1>3, <1>4, <1>6 DEF MeaningIn
<1>8. NodesMean(h, b)
  <2>1. \A k \in 1..b : h.roots[k] = g.roots[k]
    BY <1>0
  <2>2. NodesMean(g, b) /\ b <= b
    BY DEF GraphMeansIn
  <2>3. IF h.nodes[m].op = 0 THEN LeafMeans(h.nodes[m].entity) ELSE OperatorMeans(h, b, m)
    BY <1>1, <1>3, <1>4, <1>6
  <2>4. DOMAIN h.nodes = DOMAIN g.nodes \cup {m}
    BY <1>1, <1>5
  <2>5. QED
    BY <1>5, <2>1, <2>2, <2>3, <2>4, NodesGrow
<1>9. EntitiesMean(h, b)
  <2> SUFFICES ASSUME NEW f \in Entities
               PROVE  IF h.of[f] = NoNode THEN ~WrittenBefore(f, b)
                      ELSE h.nodes[h.of[f]].entity = f /\ MeaningIn(h, h.of[f]) = After[b][f]
    BY DEF EntitiesMean
  <2>1. g.of \in [Entities -> 0..Len(g.nodes)]
    BY DEF GraphIn
  <2>2. CASE h.of[f] = g.of[f]
    <3>1. IF g.of[f] = NoNode THEN ~WrittenBefore(f, b)
          ELSE g.nodes[g.of[f]].entity = f /\ MeaningIn(g, g.of[f]) = After[b][f]
      BY DEF GraphMeansIn, EntitiesMean
    <3>2. g.of[f] # NoNode => g.of[f] \in DOMAIN g.nodes
      BY <1>1, <1>3, <2>1 DEF NoNode
    <3>3. CASE g.of[f] = NoNode
      BY <2>2, <3>1, <3>3
    <3>4. CASE g.of[f] # NoNode
      <4>1. PICK k \in DOMAIN g.nodes : k = g.of[f]
        BY <3>2, <3>4
      <4>2. h.nodes[k] = g.nodes[k] /\ MeaningIn(h, k) = MeaningIn(g, k)
        BY <1>5, MeaningKept DEF NodesKept
      <4>3. QED
        BY <2>2, <3>1, <3>4, <4>1, <4>2
    <3>5. QED
      BY <3>3, <3>4
  <2>3. CASE h.of[f] # g.of[f]
    <3>1. f = e /\ h.of[f] = m /\ After[b][e] = <<e>>
      BY <1>0, <1>1, <1>4, <2>1, <2>3
    <3>2. m # NoNode
      BY <1>3, <1>4 DEF NoNode
    <3>3. QED
      BY <1>1, <1>3, <1>4, <1>6, <1>7, <3>1, <3>2
  <2>4. QED
    BY <2>2, <2>3
<1>10. RootsMean(h, b)
  BY <1>0, <1>5, RootsStand
<1>11. QED
  BY <1>0, <1>1, <1>3, <1>4, <1>5, <1>7, <1>8, <1>9, <1>10 DEF Extends, GraphMeansIn

(* Reading an entity finds, or makes, the node of what it held.             *)
LEMMA ReadingMeans ==
  ASSUME NEW g, NEW b \in 0..Len(recording), GraphIn(g), GraphMeansIn(g, b),
         recording \in Seq(Recordable), NEW e \in Entities, ~WrittenBefore(e, b) => LeafMeans(e)
  PROVE  LET h == Reading(g, e) IN
           /\ Extends(g, h, b) /\ h.of[e] \in DOMAIN h.nodes
           /\ MeaningIn(h, h.of[e]) = After[b][e] /\ h.nodes[h.of[e]].entity = e
<1>1. PICK h : h = Reading(g, e)
  OBVIOUS
<1>2. GraphIn(h) /\ h.of[e] \in 1..Len(h.nodes) /\ Len(h.nodes) \in Nat
  BY <1>1, ReadingKeeps DEF Grown
<1>3. DOMAIN h.nodes = 1..Len(h.nodes) /\ b \in Nat
  <2>1. Len(recording) \in Nat
    OBVIOUS
  <2>2. QED
    BY <1>2, <2>1 DEF GraphIn
<1>4. IF g.of[e] = NoNode THEN ~WrittenBefore(e, b)
      ELSE g.nodes[g.of[e]].entity = e /\ MeaningIn(g, g.of[e]) = After[b][e]
  BY DEF GraphMeansIn, EntitiesMean
<1>5. CASE g.of[e] # NoNode
  <2>1. h = g
    BY <1>1, <1>5 DEF Reading
  <2>2. Extends(g, h, b)
    BY <1>2, <1>3, <2>1 DEF Extends, NodesKept
  <2>3. QED
    BY <1>1, <1>2, <1>3, <1>4, <1>5, <2>1, <2>2
<1>6. CASE g.of[e] = NoNode
  <2>1. ~WrittenBefore(e, b) /\ LeafMeans(e)
    BY <1>4, <1>6
  <2>2. After[b][e] = <<e>>
    BY <2>1, UnwrittenAfter
  <2>3. PICK w : w = WithLeaf(g, e)
    OBVIOUS
  <2>4. h = [w EXCEPT !.of[e] = Len(g.nodes) + 1]
    BY <1>1, <1>6, <2>3 DEF Reading
  <2>5. /\ w.nodes = Append(g.nodes, Leaf(e)) /\ w.of = g.of /\ w.roots = g.roots
        /\ GraphIn(w)
    BY <2>3, WithLeafKeeps DEF Grown
  <2>6. /\ DOMAIN w = {"nodes", "of", "roots"}
        /\ g.of \in [Entities -> 0..Len(g.nodes)]
    BY <2>5 DEF GraphIn
  <2>7. /\ h.nodes = Append(g.nodes, Leaf(e)) /\ h.roots = g.roots
        /\ h.of = [g.of EXCEPT ![e] = Len(g.nodes) + 1]
    BY <2>4, <2>5, <2>6
  <2>8. /\ Extends(g, h, b) /\ Len(h.nodes) = Len(g.nodes) + 1
        /\ MeaningIn(h, Len(h.nodes)) = <<e>> /\ h.nodes[Len(h.nodes)] = Leaf(e)
    <3>1. LeafAdded(g, h, e, b)
      BY <2>1, <2>2, <2>7 DEF LeafAdded
    <3>2. b \in Nat /\ GraphIn(h) /\ LeafMeans(e)
      BY <1>2, <1>3, <2>1
    <3>3. QED
      BY <3>1, <3>2, LeafJoins
  <2>9. h.of[e] = Len(h.nodes)
    BY <2>6, <2>7, <2>8
  <2>10. Leaf(e).entity = e
    BY DEF Leaf, Node
  <2>11. QED
    BY <1>1, <1>2, <1>3, <2>2, <2>8, <2>9, <2>10
<1>7. QED
  BY <1>5, <1>6

(* A child of an operator, or the node of an entity, is a leaf or the node  *)
(* of an operation already built.                                          *)
LEMMA OpOfNode ==
  ASSUME NEW g, NEW b \in Nat, NodesMean(g, b), NEW n \in DOMAIN g.nodes
  PROVE  g.nodes[n].op = 0 \/ g.nodes[n].op \in 1..b
BY DEF NodesMean, OperatorMeans

(* The operation is appended as a node over its operands' nodes.            *)
OperatorAdded(r, h, k, x, y) ==
  /\ h.nodes = Append(r.nodes, Node(k, Target(recording[k]), <<x, y>>))
  /\ h.of = [r.of EXCEPT ![Target(recording[k])] = Len(r.nodes) + 1]
  /\ h.roots = Append(r.roots, Len(r.nodes) + 1)

StandsFor(g, n, e, k) == MeaningIn(g, n) = After[k][e] /\ g.nodes[n].entity = e

LEMMA OperatorJoins ==
  ASSUME NEW r, NEW b \in Nat, NEW k, k = b + 1, GraphIn(r), GraphMeansIn(r, b),
         k <= Len(recording), recording \in Seq(Recordable),
         NEW x \in DOMAIN r.nodes, NEW y \in DOMAIN r.nodes,
         StandsFor(r, x, recording[k].operand1, b), StandsFor(r, y, recording[k].operand2, b),
         NEW h, OperatorAdded(r, h, k, x, y)
  PROVE  GraphMeansIn(h, k)
<1>1. PICK op, o, p, node, roots, t :
        /\ op = recording[k] /\ o = r.nodes /\ p = h.nodes /\ roots = r.roots
        /\ t = Target(op) /\ node = Node(k, t, <<x, y>>)
  OBVIOUS
<1>2. /\ p = Append(o, node) /\ h.roots = Append(roots, Len(o) + 1)
      /\ h.of = [r.of EXCEPT ![t] = Len(o) + 1]
  BY <1>1 DEF OperatorAdded
<1>3. /\ o \in Seq(Range(o)) /\ r.of \in [Entities -> 0..Len(o)] /\ roots \in Seq(DOMAIN o)
  BY <1>1 DEF GraphIn
<1>4. /\ Len(p) = Len(o) + 1 /\ p[Len(o) + 1] = node
      /\ \A j \in 1..Len(o) : p[j] = o[j]
      /\ Len(o) \in Nat /\ DOMAIN o = 1..Len(o) /\ DOMAIN p = 1..(Len(o) + 1)
  BY <1>2, <1>3, SequenceGrows
<1>5. PICK m \in Nat : m = Len(o) + 1
  BY <1>4
<1>6. NodesKept(r, h) /\ DOMAIN p = DOMAIN o \cup {m} /\ m # NoNode
  BY <1>1, <1>4, <1>5 DEF NodesKept, NoNode
<1>7. RootsMean(r, b) /\ NodesMean(r, b) /\ EntitiesMean(r, b) /\ b <= k /\ k \in Nat
      /\ OneWritten(recording, After, Len(recording)) /\ k \in 1..Len(recording)
  BY AfterFacts DEF GraphMeansIn
<1>8. /\ node.op = k /\ node.entity = t /\ node.children = <<x, y>> /\ k # 0
  BY <1>1, <1>7 DEF Node
<1>9. MeaningIn(h, m) = After[k][t] /\ h.nodes[m] = node
  BY <1>1, <1>4, <1>5, <1>8 DEF MeaningIn
<1>10. /\ Len(h.roots) = k /\ h.roots[k] = m /\ \A j \in 1..b : h.roots[j] = roots[j]
  <2>1. Len(roots) = b
    BY <1>1, <1>7 DEF RootsMean
  <2>2. roots \in Seq(Nat) /\ m \in Nat
    BY <1>3, <1>4, <1>5
  <2>3. QED
    BY <1>2, <1>5, <2>1, <2>2, Appended
<1>11. RootsMean(h, k)
  <2>1. \A j \in 1..b : roots[j] \in DOMAIN o /\ o[roots[j]].op = j
    <3>1. Len(roots) = b /\ \A j \in 1..b : o[roots[j]].op = j
      BY <1>1, <1>7 DEF RootsMean
    <3>2. QED
      BY <1>3, <3>1
  <2>2. \A j \in 1..b : p[h.roots[j]].op = j
    BY <1>4, <1>10, <2>1
  <2>3. p[h.roots[k]].op = k
    BY <1>4, <1>5, <1>8, <1>10
  <2>4. \A j \in 1..k : j \in 1..b \/ j = k
    BY <1>7
  <2>5. QED
    BY <1>1, <1>10, <2>2, <2>3, <2>4 DEF RootsMean
<1>12. OperatorMeans(h, k, m)
  <2>1. /\ MeaningIn(h, x) = After[b][op.operand1] /\ h.nodes[x].entity = op.operand1
        /\ MeaningIn(h, y) = After[b][op.operand2] /\ h.nodes[y].entity = op.operand2
    BY <1>1, <1>6, MeaningKept DEF StandsFor, NodesKept
  <2>2. h.nodes[x].op < k /\ h.nodes[y].op < k
    <3>1. r.nodes[x].op \in 0..b /\ r.nodes[y].op \in 0..b
      BY <1>7, OpOfNode
    <3>2. h.nodes[x] = r.nodes[x] /\ h.nodes[y] = r.nodes[y]
      BY <1>6 DEF NodesKept
    <3>3. \A j \in 0..b : j < k
      OBVIOUS
    <3>4. QED
      BY <3>1, <3>2, <3>3
  <2>3. /\ node.op \in 1..k /\ h.roots[node.op] = m /\ node.entity = Target(recording[node.op])
        /\ node.op - 1 = b
    BY <1>1, <1>7, <1>8, <1>10
  <2>4. /\ node.children[1] = x /\ node.children[2] = y
        /\ <<op.operand1, op.operand2>>[1] = op.operand1
        /\ <<op.operand1, op.operand2>>[2] = op.operand2
    BY <1>8
  <2>5. \A j \in {1, 2} : j = 1 \/ j = 2
    OBVIOUS
  <2>6. recording[node.op] = op
    BY <1>1, <1>8
  <2>7. QED
    BY <1>8, <1>9, <2>1, <2>2, <2>3, <2>4, <2>5, <2>6 DEF OperatorMeans
<1>13. NodesMean(h, k)
  <2>1. \A j \in 1..b : h.roots[j] = r.roots[j]
    BY <1>1, <1>10
  <2>2. IF h.nodes[m].op = 0 THEN LeafMeans(h.nodes[m].entity) ELSE OperatorMeans(h, k, m)
    BY <1>8, <1>9, <1>12
  <2>3. DOMAIN h.nodes = DOMAIN r.nodes \cup {m}
    BY <1>1, <1>6
  <2>4. QED
    BY <1>6, <1>7, <2>1, <2>2, <2>3, NodesGrow
<1>14. EntitiesMean(h, k)
  <2> SUFFICES ASSUME NEW f \in Entities
               PROVE  IF h.of[f] = NoNode THEN ~WrittenBefore(f, k)
                      ELSE h.nodes[h.of[f]].entity = f /\ MeaningIn(h, h.of[f]) = After[k][f]
    BY DEF EntitiesMean
  <2>1. CASE f = t
    <3>1. h.of[f] = m
      BY <1>2, <1>3, <1>5, <2>1
    <3>2. QED
      BY <1>6, <1>8, <1>9, <2>1, <3>1
  <2>2. CASE f # t
    <3>1. h.of[f] = r.of[f]
      BY <1>2, <1>3, <2>2
    <3>2. After[k][f] = After[b][f]
      <4>1. k - 1 = b
        BY <1>7
      <4>2. QED
        BY <1>1, <1>7, <2>2, <4>1 DEF OneWritten
    <3>3. CASE r.of[f] = NoNode
      <4>1. ~WrittenBefore(f, b)
        BY <1>7, <3>3 DEF EntitiesMean
      <4>2. \A j \in 1..k : j \in 1..b \/ j = k
        BY <1>7
      <4>3. ~WrittenBefore(f, k)
        BY <1>1, <2>2, <4>1, <4>2 DEF WrittenBefore, WrittenIn
      <4>4. QED
        BY <3>1, <3>3, <4>3
    <3>4. CASE r.of[f] # NoNode
      <4>1. PICK n \in DOMAIN r.nodes : n = r.of[f]
        BY <1>1, <1>3, <1>4, <3>4 DEF NoNode
      <4>2. r.nodes[n].entity = f /\ MeaningIn(r, n) = After[b][f]
        BY <1>7, <3>4, <4>1 DEF EntitiesMean
      <4>3. h.nodes[n] = r.nodes[n] /\ MeaningIn(h, n) = MeaningIn(r, n)
        BY <1>6, MeaningKept DEF NodesKept
      <4>4. QED
        BY <3>1, <3>2, <3>4, <4>1, <4>2, <4>3
    <3>5. QED
      BY <3>3, <3>4
  <2>3. QED
    BY <2>1, <2>2
<1>15. QED
  BY <1>11, <1>13, <1>14 DEF GraphMeansIn

(* The meaning of a graph depends on what was recorded alone.               *)
LEMMA SameGraphMeans ==
  ASSUME RunInv, UNCHANGED <<temps, recording, map>>, NEW b, b = Built',
         GraphMeansIn(graph', b)
  PROVE  GraphMeans'
<1>1. After' = After
  BY SameMeaning
<1>2. PICK g : g = graph'
  OBVIOUS
<1>3. GraphMeansIn(g, b)
  BY <1>2
<1>4. RootsMean(g, b) => RootsMean(graph, Built)'
  BY <1>2 DEF RootsMean
<1>5. EntitiesMean(g, b) => EntitiesMean(graph, Built)'
  BY <1>1, <1>2 DEF EntitiesMean, WrittenBefore, WrittenIn, MeaningIn
<1>6. NodesMean(g, b) => NodesMean(graph, Built)'
  <2>1. \A n : OperatorMeans(g, b, n) => OperatorMeans(graph, Built, n)'
    BY <1>1, <1>2 DEF OperatorMeans, MeaningIn
  <2>2. \A n : LeafMeans(g.nodes[n].entity) => LeafMeans(graph.nodes[n].entity)'
    BY <1>2 DEF LeafMeans
  <2>3. QED
    BY <1>2, <2>1, <2>2 DEF NodesMean
<1>7. QED
  BY <1>3, <1>4, <1>5, <1>6 DEF GraphMeansIn, GraphMeans

(* What an operation mentions is canonical, and nothing has yet written     *)
(* what no earlier operation writes.                                       *)
LEMMA OperandIsLeaf ==
  ASSUME RunInv, LambdaInv, ~poisoned, NEW k \in 1..Len(recording),
         NEW e \in {recording[k].operand1, recording[k].operand2}, ~WrittenBefore(e, k - 1)
  PROVE  LeafMeans(e)
<1>1. k \in DOMAIN recording /\ e \in Mentions(recording[k])
  <2>1. recording \in Seq(Recordable)
    BY DEF RunInv, RecordedTyped
  <2>2. QED
    BY <2>1 DEF Mentions
<1>2. map[e] = e
  BY <1>1 DEF RunInv, RecordedCanonical
<1>3. ResultIn(temps, e) => WrittenIn(recording, e, k - 1)
  BY <1>1 DEF LambdaInv, ResultsFirst, OperationFits
<1>4. QED
  BY <1>2, <1>3 DEF LeafMeans, WrittenBefore

LEMMA ScalarUnwritten ==
  ASSUME RunInv, LambdaInv, NEW e, ScalarIn(temps, e), NEW k \in 0..Len(recording)
  PROVE  ~WrittenBefore(e, k)
<1>1. \A j \in 1..k : j \in DOMAIN recording
  BY DEF RunInv, RecordedTyped
<1>2. QED
  BY <1>1 DEF WrittenBefore, WrittenIn, LambdaInv, ResultsFirst, OperationFits

LEMMA MeantBuildOperation ==
  ASSUME RunInv, RunInv', MeaningInv, BuildOperation, UNCHANGED <<recordingVars, hold>>
  PROVE  MeaningInv'
<1>1. PICK op : op = recording[next]
  OBVIOUS
<1>2. PICK scalar \in BOOLEAN : scalar = IsScalar(op.operand2)
  BY DEF IsScalar
<1>3. PICK l : l = Reading(graph, op.operand1)
  OBVIOUS
<1>4. PICK r : r = IF scalar THEN WithLeaf(l, op.operand2) ELSE Reading(l, op.operand2)
  OBVIOUS
<1>5. PICK x, y : x = l.of[op.operand1]
                  /\ y = IF scalar THEN Len(r.nodes) ELSE r.of[op.operand2]
  OBVIOUS
<1>6. /\ phase = "build" /\ next <= Len(recording) /\ next' = next + 1
      /\ UNCHANGED <<phase, temps, recording, store, stack, ids, code, inputs, bindings,
                     evaluated, map>>
  BY DEF BuildOperation, lowering, recordingVars
<1>7. graph' = [r EXCEPT !.nodes = Append(@, Node(next, Target(op), <<x, y>>)),
                         !.of[Target(op)] = Len(r.nodes) + 1,
                         !.roots = Append(@, Len(r.nodes) + 1)]
  BY <1>1, <1>2, <1>3, <1>4, <1>5 DEF BuildOperation
<1>8. /\ GraphIn(graph) /\ ~poisoned /\ next \in Nat \ {0}
      /\ recording \in Seq(Recordable) /\ Len(recording) \in Nat /\ LambdaInv
  BY <1>6, AfterFacts DEF RunInv, Staged, Translating, RecordedTyped, MeaningInv
<1>9. PICK b \in 0..Len(recording), k \in 1..Len(recording) : b = next - 1 /\ k = next
  BY <1>6, <1>8
<1>10. GraphMeansIn(graph, b) /\ k = b + 1 /\ b = k - 1 /\ b \in Nat
  BY <1>6, <1>8, <1>9 DEF MeaningInv, Translating, GraphMeans, Built
<1>11. PICK e \in Entities, f \in Entities : e = op.operand1 /\ f = op.operand2
  <2>1. op \in Recordable
    BY <1>1, <1>8, <1>9
  <2>2. QED
    BY <2>1, MentionsAreEntities DEF Mentions
<1>12. /\ ~WrittenBefore(e, b) => LeafMeans(e)
       /\ ~WrittenBefore(f, b) => LeafMeans(f)
  BY <1>1, <1>8, <1>9, <1>10, <1>11, OperandIsLeaf
<1>13. /\ Extends(graph, l, b) /\ x \in DOMAIN l.nodes /\ StandsFor(l, x, e, b)
  BY <1>3, <1>5, <1>8, <1>10, <1>11, <1>12, ReadingMeans DEF StandsFor
<1>14. GraphIn(l) /\ GraphMeansIn(l, b)
  BY <1>13 DEF Extends
<1>15. Extends(l, r, b) /\ y \in DOMAIN r.nodes /\ StandsFor(r, y, f, b)
  <2>1. CASE scalar
    <3>1. r = WithLeaf(l, f) /\ y = Len(r.nodes)
      BY <1>4, <1>5, <1>11, <2>1
    <3>2. ~WrittenBefore(f, b)
      <4>1. ScalarIn(temps, f)
        BY <1>2, <1>11, <2>1 DEF IsScalar, ScalarIn
      <4>2. QED
        BY <1>8, <4>1, ScalarUnwritten
    <3>3. After[b][f] = <<f>> /\ LeafMeans(f)
      BY <1>8, <1>12, <3>2, UnwrittenAfter
    <3>4. LeafAdded(l, r, f, b) /\ GraphIn(r)
      BY <1>14, <3>1, WithLeafKeeps DEF LeafAdded, Grown
    <3>5. /\ Extends(l, r, b) /\ y \in DOMAIN r.nodes /\ MeaningIn(r, y) = <<f>>
          /\ r.nodes[y] = Leaf(f)
      BY <1>10, <1>14, <3>1, <3>3, <3>4, LeafJoins
    <3>6. QED
      BY <3>3, <3>5 DEF StandsFor, Leaf, Node
  <2>2. CASE ~scalar
    <3>1. r = Reading(l, f) /\ y = r.of[f]
      BY <1>4, <1>5, <1>11, <2>2
    <3>2. QED
      BY <1>8, <1>12, <1>14, <3>1, ReadingMeans DEF StandsFor
  <2>3. QED
    BY <2>1, <2>2
<1>16. /\ GraphIn(r) /\ GraphMeansIn(r, b) /\ NodesKept(l, r)
       /\ x \in DOMAIN r.nodes /\ StandsFor(r, x, e, b)
  <2>1. GraphIn(r) /\ GraphMeansIn(r, b) /\ NodesKept(l, r)
    BY <1>15 DEF Extends
  <2>2. MeaningIn(r, x) = MeaningIn(l, x) /\ r.nodes[x] = l.nodes[x] /\ x \in DOMAIN r.nodes
    BY <1>13, <2>1, MeaningKept DEF NodesKept
  <2>3. QED
    BY <1>13, <2>1, <2>2 DEF StandsFor
<1>17. PICK h : h = graph'
  OBVIOUS
<1>18. OperatorAdded(r, h, k, x, y)
  <2>1. DOMAIN r = {"nodes", "of", "roots"}
    BY <1>16 DEF GraphIn
  <2>2. Target(op) = Target(recording[k]) /\ k = next
    BY <1>1, <1>9
  <2>3. QED
    BY <1>7, <1>17, <2>1, <2>2 DEF OperatorAdded
<1>19. GraphMeansIn(h, k)
  <2>1. StandsFor(r, x, recording[k].operand1, b) /\ StandsFor(r, y, recording[k].operand2, b)
    BY <1>1, <1>9, <1>11, <1>15, <1>16
  <2>2. QED
    BY <1>8, <1>9, <1>10, <1>15, <1>16, <1>18, <2>1, OperatorJoins
<1>20. GraphMeans'
  <2>1. Built' = k
    BY <1>6, <1>8, <1>9 DEF Built
  <2>2. QED
    BY <1>6, <1>17, <1>19, <2>1, SameGraphMeans
<1>21. LambdaInv'
  BY <1>6, <1>8, LambdaKept DEF Translating
<1>22. Unstarted'
  BY <1>6 DEF Unstarted, MeaningInv
<1>23. QED
  BY <1>6, <1>20, <1>21, <1>22 DEF MeaningInv

-----------------------------------------------------------------------------
(* Walking the graph.                                                       *)

(* What translation leaves alone.                                           *)
Settled ==
  /\ UNCHANGED <<temps, recording, graph>>
  /\ UNCHANGED <<start, map, poisoned, live, moved, now, clobbered>>

LEMMA SettledOf ==
  ASSUME UNCHANGED <<temps, recording, recordingVars, graph>>
  PROVE  Settled
BY DEF Settled, recordingVars, userVars

LEMMA SettledMeans ==
  ASSUME RunInv, Settled
  PROVE  /\ After' = After /\ Sources' = Sources /\ AllEncrypted' = AllEncrypted
         /\ \A n : Meaning(n)' = Meaning(n) /\ IsLeaf(n)' = IsLeaf(n)
         /\ \A e, n : WrittenBefore(e, n)' = WrittenBefore(e, n)
<1>1. After' = After
  BY SameMeaning DEF Settled
<1>2. Sources' = Sources /\ AllEncrypted' = AllEncrypted
  BY DEF Settled, Sources, AllEncrypted
<1>3. \A n : Meaning(n)' = Meaning(n) /\ IsLeaf(n)' = IsLeaf(n)
  BY <1>1 DEF Settled, Meaning, MeaningIn, IsLeaf
<1>4. \A e, n : WrittenBefore(e, n)' = WrittenBefore(e, n)
  BY DEF Settled, WrittenBefore, WrittenIn
<1>5. QED
  BY <1>1, <1>2, <1>3, <1>4

Walking == {"lower", "lowered", "execute", "evaluate"}

LEMMA GraphStands ==
  ASSUME RunInv, MeaningInv, phase \in Walking, phase' \in Walking, Settled
  PROVE  GraphMeans'
<1>1. GraphMeansIn(graph, Len(recording))
  BY DEF MeaningInv, Walking, Translating, GraphMeans, Built
<1>2. Built' = Len(recording)
  BY DEF Walking, Built, Settled
<1>3. QED
  BY <1>1, <1>2, SameGraphMeans DEF Settled

LEMMA LoweringStands ==
  ASSUME RunInv, LoweringMeans, Settled, UNCHANGED <<ids, code, inputs, bindings>>,
         Finished' = Finished
  PROVE  LoweringMeans'
<1>1. /\ \A n : Meaning(n)' = Meaning(n) /\ IsLeaf(n)' = IsLeaf(n)
      /\ graph' = graph /\ recording' = recording /\ After' = After
  BY SettledMeans DEF Settled
<1>2. /\ InputIds' = InputIds /\ Bound' = Bound
      /\ \A id, e : FirstBound(id, e)' = FirstBound(id, e)
      /\ \A b : LastBound(b)' = LastBound(b)
  BY DEF InputIds, Bound, FirstBound, LastBound
<1>3. \A i : Follows(i) => Follows(i)'
  BY <1>1 DEF Follows
<1>4. QED
  BY <1>1, <1>2, <1>3 DEF LoweringMeans

LEMMA EvaluationStands ==
  ASSUME RunInv, EvaluationMeans, Settled, UNCHANGED <<cipher, blocks>>, Finished' = Finished
  PROVE  EvaluationMeans'
BY SettledMeans DEF EvaluationMeans, IsEncrypted

LEMMA HeldStands ==
  ASSUME RunInv, HeldMeans, Settled, UNCHANGED <<ids, inputs, blocks, hold>>
  PROVE  HeldMeans'
<1>1. InputIds' = InputIds /\ graph' = graph
  BY DEF InputIds, Settled
<1>2. QED
  BY <1>1, SettledMeans DEF HeldMeans

(* The recording, and where the walk of the graph made from it stands.      *)
LEMMA WalkFacts ==
  ASSUME RunInv, MeaningInv, phase \in Walking
  PROVE  /\ GraphIn(graph) /\ ~poisoned /\ LambdaInv
         /\ recording \in Seq(Recordable) /\ Len(recording) \in Nat
         /\ DOMAIN recording = 1..Len(recording)
         /\ Len(graph.roots) = Len(recording) /\ GraphMeansIn(graph, Len(recording))
         /\ OneWritten(recording, After, Len(recording))
         /\ WalkMeans /\ next \in Int
<1>1. /\ GraphIn(graph) /\ ~poisoned /\ recording \in Seq(Recordable) /\ LambdaInv
      /\ GraphMeansIn(graph, Len(recording)) /\ WalkMeans
  BY DEF RunInv, Staged, Walking, Translating, RecordedTyped, MeaningInv, GraphMeans, Built
<1>2. Len(graph.roots) = Len(recording)
  BY <1>1 DEF GraphMeansIn, RootsMean
<1>3. next \in Int
  <2>1. phase \in {"lower", "evaluate"} => next \in Nat \ {0}
    BY DEF RunInv, Staged
  <2>2. phase \notin {"lower", "evaluate"} => next = Len(graph.roots) + 1
    BY <1>1 DEF WalkMeans
  <2>3. Len(recording) \in Nat
    BY <1>1
  <2>4. QED
    BY <1>2, <2>1, <2>2, <2>3
<1>4. QED
  BY <1>1, <1>2, <1>3, AfterFacts

(* The call on top of the stack is the root being walked, or a leaf it      *)
(* reads.                                                                  *)
AtRoot(k, root) ==
  /\ k \in 1..Len(recording) /\ next = k + 1 /\ Finished = k - 1
  /\ root = graph.roots[k] /\ root \in DOMAIN graph.nodes /\ graph.nodes[root].op = k
  /\ ~IsLeaf(root) /\ OperatorMeans(graph, Len(recording), root)
  /\ ~Visited(root)

LEMMA WalkPosition ==
  ASSUME RunInv, MeaningInv, phase \in Walking, stack # << >>
  PROVE  \E k, root :
           /\ AtRoot(k, root)
           /\ \/ stack = <<root>> /\ Top = root
              \/ /\ Len(stack) = 2 /\ stack[1] = root /\ Top = stack[2]
                 /\ \E j \in {1, 2} : Top = Children(root)[j]
                 /\ IsLeaf(Top) /\ ~Visited(Top)
<1>1. /\ GraphIn(graph) /\ Len(recording) \in Nat /\ Len(graph.roots) = Len(recording)
      /\ GraphMeansIn(graph, Len(recording)) /\ WalkMeans /\ next \in Int
  BY WalkFacts
<1>2. next >= 2 /\ next - 1 <= Len(graph.roots)
  BY <1>1 DEF WalkMeans
<1>3. PICK k \in 1..Len(recording) : k = next - 1
  BY <1>1, <1>2
<1>4. Finished = k - 1 /\ next = k + 1
  BY <1>1, <1>3 DEF Finished
<1>5. PICK root : root = graph.roots[k]
  OBVIOUS
<1>6. root \in DOMAIN graph.nodes /\ graph.nodes[root].op = k
  <2>1. graph.roots \in Seq(DOMAIN graph.nodes)
    BY <1>1 DEF GraphIn
  <2>2. root \in DOMAIN graph.nodes
    BY <1>1, <1>5, <2>1
  <2>3. QED
    BY <1>1, <1>5, <2>2 DEF GraphMeansIn, RootsMean
<1>7. ~IsLeaf(root) /\ OperatorMeans(graph, Len(recording), root)
  BY <1>1, <1>6 DEF IsLeaf, GraphMeansIn, NodesMean
<1>8. ~Visited(root)
  BY <1>1, <1>4, <1>6, <1>7 DEF WalkMeans
<1>9. AtRoot(k, root)
  BY <1>4, <1>5, <1>6, <1>7, <1>8 DEF AtRoot
<1>10. CASE stack = <<graph.roots[next - 1]>>
  <2>1. stack = <<root>> /\ Top = root
    BY <1>3, <1>5, <1>10 DEF Top
  <2>2. QED
    BY <1>9, <2>1
<1>11. CASE /\ Len(stack) = 2 /\ stack[1] = graph.roots[next - 1]
            /\ \E j \in {1, 2} : stack[2] = Children(stack[1])[j]
            /\ IsLeaf(stack[2]) /\ ~Visited(stack[2])
  <2>1. Top = stack[2] /\ stack[1] = root
    BY <1>3, <1>5, <1>11 DEF Top
  <2>2. QED
    BY <1>9, <1>11, <2>1
<1>12. QED
  BY <1>1, <1>10, <1>11 DEF WalkMeans

(* What remains to be shown of a step of the walk.                          *)
LEMMA MeantStep ==
  ASSUME RunInv, MeaningInv, phase \in {"lower", "evaluate"}, phase' = phase,
         UNCHANGED <<temps, recording, recordingVars, graph>>,
         phase = "lower" => UNCHANGED <<store, evaluated>> /\ LoweringMeans',
         WalkMeans', phase = "evaluate" => EvaluationMeans'
  PROVE  MeaningInv'
<1>1. Settled /\ phase \in Walking /\ phase' \in Walking
  BY SettledOf DEF Walking
<1>2. GraphMeans'
  BY <1>1, GraphStands
<1>3. phase = "evaluate" => ~start.runtime
  BY DEF RunInv, Staged
<1>4. LambdaInv'
  BY <1>3, LambdaKept DEF MeaningInv, Translating
<1>5. Unstarted'
  BY <1>1, <1>3 DEF Unstarted, MeaningInv, Settled
<1>6. QED
  BY <1>2, <1>4, <1>5 DEF MeaningInv

LEMMA MeantGraphBuilt ==
  ASSUME RunInv, RunInv', MeaningInv, NEW walk,
         walk = (IF start.runtime THEN "lower" ELSE "evaluate"),
         GraphBuilt(walk), UNCHANGED <<recordingVars, hold>>
  PROVE  MeaningInv'
<1>1. /\ phase = "build" /\ next > Len(recording) /\ phase' = walk /\ next' = 1
      /\ phase' \in {"lower", "evaluate"}
      /\ phase' = "evaluate" => ~start.runtime
      /\ ids' = [n \in DOMAIN graph.nodes |-> 0]
      /\ UNCHANGED <<temps, recording, store, graph, stack, code, inputs, bindings, evaluated>>
      /\ UNCHANGED <<plain, cipher, blocks, start>>
  BY DEF GraphBuilt, recordingVars, store
<1>2. /\ GraphIn(graph) /\ stack = << >> /\ code = << >> /\ inputs = << >> /\ bindings = << >>
      /\ next \in Nat \ {0} /\ recording \in Seq(Recordable) /\ LambdaInv
      /\ \A e \in Entities : After[0][e] = <<e>>
      /\ evaluated = {}
  BY <1>1, AfterFacts DEF RunInv, Staged, Translating, RecordedTyped, MeaningInv, Unstarted
<1>3. Settled
  BY <1>1, SettledOf
<1>4. Built = Len(recording) /\ Len(recording) \in Nat /\ GraphMeansIn(graph, Len(recording))
  <2>1. Built = next - 1 /\ GraphMeansIn(graph, Built) /\ Len(recording) \in Nat
    BY <1>1, <1>2 DEF Built, MeaningInv, GraphMeans, Translating
  <2>2. next - 1 <= Len(recording)
    BY <2>1 DEF GraphMeansIn, RootsMean
  <2>3. next - 1 = Len(recording)
    BY <1>1, <1>2, <2>1, <2>2
  <2>4. QED
    BY <2>1, <2>3
<1>5. GraphMeans'
  <2>1. Built' = Len(recording)
    BY <1>1 DEF Built
  <2>2. QED
    BY <1>1, <1>3, <1>4, <2>1, SameGraphMeans DEF Settled
<1>6. LambdaInv'
  BY <1>1, <1>2, LambdaKept DEF Translating
<1>7. Unstarted'
  BY <1>1, <1>2 DEF Unstarted
<1>8. Finished' = 0 /\ 1..0 = {}
  BY <1>1, <1>2 DEF Finished
<1>9. WalkMeans'
  <2>1. \A n \in DOMAIN graph.nodes : ~IsLeaf(n) => graph.nodes[n].op \in 1..Len(recording)
    BY <1>4, OpOfNode DEF GraphMeansIn, IsLeaf
  <2>2. \A n \in DOMAIN graph.nodes : ~IsLeaf(n) => ~(graph.nodes[n].op <= 0)
    BY <1>4, <2>1
  <2>3. \A n \in DOMAIN graph.nodes : ~Visited(n)'
    BY <1>1, <1>2 DEF Visited
  <2>4. Len(graph.roots) \in Nat
    BY <1>4 DEF GraphMeansIn, RootsMean
  <2>5. \A n : IsLeaf(n)' = IsLeaf(n)
    BY <1>1 DEF IsLeaf
  <2>6. next' - 1 <= Len(graph.roots) /\ evaluated' \subseteq DOMAIN graph.nodes
    BY <1>1, <1>2, <2>4
  <2>7. QED
    BY <1>1, <1>2, <1>8, <2>2, <2>3, <2>5, <2>6 DEF WalkMeans
<1>10. phase' = "lower" => LoweringMeans'
  <2>1. InputIds' = {} /\ DOMAIN code' = {} /\ DOMAIN bindings' = {}
    BY <1>1, <1>2 DEF InputIds
  <2>2. \A n \in DOMAIN graph'.nodes : ids'[n] = 0
    BY <1>1
  <2>3. QED
    BY <1>8, <2>1, <2>2 DEF LoweringMeans
<1>11. phase' = "evaluate" => EvaluationMeans'
  <2> SUFFICES ASSUME AllEncrypted, NEW e \in Entities, e \in Sources
               PROVE  /\ IsEncrypted(e)' /\ cipher'[e] \in DOMAIN blocks'
                      /\ blocks'[cipher'[e]].holds = After'[0][e]
    <3>1. \A e : ~WrittenBefore(e, 0)
      BY <1>8 DEF WrittenBefore, WrittenIn
    <3>2. QED
      BY <1>2, <1>3, <1>8, <3>1, SettledMeans DEF EvaluationMeans
  <2>1. Original(e)
    BY <1>1, <1>2 DEF LambdaInv, SourcesIntact, Underway, Translating
  <2>2. After' = After
    BY <1>3, SettledMeans
  <2>3. QED
    BY <1>1, <1>2, <2>1, <2>2 DEF Original, IsEncrypted
<1>12. QED
  BY <1>1, <1>5, <1>6, <1>7, <1>9, <1>10, <1>11 DEF MeaningInv

LEMMA MeantVisitRoot ==
  ASSUME RunInv, RunInv', MeaningInv, VisitRoot, UNCHANGED <<recordingVars, hold>>
  PROVE  MeaningInv'
<1>1. /\ phase \in {"lower", "evaluate"} /\ stack = << >> /\ next <= Len(graph.roots)
      /\ stack' = <<graph.roots[next]>> /\ next' = next + 1
      /\ UNCHANGED <<phase, temps, recording, store, graph, ids, code, inputs, bindings,
                     evaluated>>
      /\ UNCHANGED <<cipher, blocks>>
  BY DEF VisitRoot, lowering, store
<1>2. phase \in Walking /\ Settled
  BY <1>1, SettledOf DEF Walking
<1>3. WalkMeans /\ next \in Nat \ {0} /\ Len(graph.roots) \in Nat
  BY <1>1, <1>2, WalkFacts DEF RunInv, Staged
<1>4. Finished' = Finished
  <2>1. stack' # << >>
    BY <1>1
  <2>2. QED
    BY <1>1, <1>3, <2>1 DEF Finished
<1>5. \A n : IsLeaf(n)' = IsLeaf(n) /\ Visited(n)' = Visited(n)
  BY <1>1 DEF IsLeaf, Visited
<1>6. WalkMeans'
  <2>1. next' - 1 = next /\ next' >= 2
    BY <1>1, <1>3
  <2>2. stack' = <<graph'.roots[next' - 1]>> /\ next' - 1 <= Len(graph'.roots)
    BY <1>1, <1>3, <2>1
  <2>3. \A n \in DOMAIN graph.nodes : ~IsLeaf(n) => (Visited(n) <=> graph.nodes[n].op <= Finished)
    BY <1>3 DEF WalkMeans
  <2>4. evaluated' \subseteq DOMAIN graph'.nodes
    BY <1>1, <1>3 DEF WalkMeans
  <2>5. QED
    BY <1>1, <1>4, <1>5, <2>1, <2>2, <2>3, <2>4 DEF WalkMeans
<1>7. phase = "lower" => LoweringMeans'
  BY <1>1, <1>2, <1>4, LoweringStands DEF MeaningInv
<1>8. phase = "evaluate" => EvaluationMeans'
  BY <1>1, <1>2, <1>4, EvaluationStands DEF MeaningInv
<1>9. QED
  BY <1>1, <1>6, <1>7, <1>8, MeantStep

(* Only leaves are visited from a root: its operators have been, at their   *)
(* own turn.                                                               *)
LEMMA LeafUnderRoot ==
  ASSUME RunInv, MeaningInv, phase \in Walking, NEW k, NEW root, AtRoot(k, root),
         NEW j \in {1, 2}, NEW c, c = Children(root)[j]
  PROVE  /\ c \in DOMAIN graph.nodes /\ c # root /\ graph.nodes[c].op < k
         /\ ~IsLeaf(c) => Visited(c)
<1>1. GraphIn(graph) /\ WalkMeans /\ Len(recording) \in Nat /\ GraphMeansIn(graph, Len(recording))
  BY WalkFacts
<1>2. PICK node : node = graph.nodes[root]
  OBVIOUS
<1>3. /\ node.op = k /\ root \in DOMAIN graph.nodes /\ k \in 1..Len(recording) /\ Finished = k - 1
      /\ OperatorMeans(graph, Len(recording), root)
  BY <1>2 DEF AtRoot
<1>4. c = node.children[j]
  BY <1>2 DEF Children
<1>5. graph.nodes[c].op < k
  BY <1>2, <1>3, <1>4 DEF OperatorMeans
<1>6. c \in DOMAIN graph.nodes
  <2>1. NodeIn(root, node) /\ node.op # 0
    BY <1>1, <1>2, <1>3 DEF GraphIn
  <2>2. node.children[1] \in 1..(root - 1) /\ node.children[2] \in 1..(root - 1)
    BY <2>1 DEF NodeIn
  <2>3. graph.nodes \in Seq(Range(graph.nodes))
    BY <1>1 DEF GraphIn
  <2>4. DOMAIN graph.nodes = 1..Len(graph.nodes) /\ Len(graph.nodes) \in Nat
    BY <2>3
  <2>5. 1..(root - 1) \subseteq DOMAIN graph.nodes
    BY <1>3, <2>4
  <2>6. QED
    BY <1>4, <2>2, <2>5
<1>7. ~IsLeaf(c) => Visited(c)
  <2> SUFFICES ASSUME ~IsLeaf(c) PROVE Visited(c)
    OBVIOUS
  <2>1. graph.nodes[c].op \in 1..Len(recording)
    BY <1>1, <1>6, OpOfNode DEF GraphMeansIn, IsLeaf
  <2>2. graph.nodes[c].op <= Finished
    BY <1>1, <1>3, <1>5, <2>1
  <2>3. QED
    BY <1>1, <1>6, <2>2 DEF WalkMeans
<1>8. c # root
  BY <1>2, <1>3, <1>5
<1>9. QED
  BY <1>5, <1>6, <1>7, <1>8

(* Outside the walk nothing speaks of the calls under way.                  *)
LEMMA MeantElsewhere ==
  ASSUME RunInv, MeaningInv, phase \notin Walking, phase # "build",
         UNCHANGED <<phase, temps, recording, store, recordingVars, next, graph, evaluated>>
  PROVE  MeaningInv'
<1>1. Settled /\ UNCHANGED <<plain, cipher, blocks>>
  BY SettledOf DEF store
<1>2. After' = After /\ Sources' = Sources /\ AllEncrypted' = AllEncrypted
  BY <1>1, SettledMeans
<1>3. ResultsFirst'
  BY <1>1 DEF ResultsFirst, OperationFits, NamesFit, WrittenIn, ResultIn, ScalarIn, Settled,
              MeaningInv, LambdaInv, Mentions, Target
<1>4. \A e : Original(e)' = Original(e)
  BY <1>1 DEF Original, IsEncrypted
<1>5. SourcesIntact'
  BY <1>1, <1>2, <1>4 DEF SourcesIntact, Settled, MeaningInv, LambdaInv
<1>6. Intended'
  BY <1>1, <1>2 DEF Intended, Symbolic, Canonical, Settled, MeaningInv, LambdaInv
<1>7. Unstarted'
  BY <1>1 DEF Unstarted, Settled, MeaningInv
<1>8. Delivered' = Delivered /\ clobbered' = clobbered
  BY <1>1 DEF Delivered, Holds, IsEncrypted, Settled
<1>9. QED
  BY <1>2, <1>3, <1>5, <1>6, <1>7, <1>8 DEF MeaningInv, LambdaInv, Walking, Translating

LEMMA Pushed ==
  ASSUME NEW S, NEW s \in Seq(S), NEW x \in S
  PROVE  LET t == Append(s, x) IN Len(s) = 1 => Len(t) = 2 /\ t[1] = s[1] /\ t[2] = x
<1>1. PICK t : t = Append(s, x)
  OBVIOUS
<1>2. /\ Len(t) = Len(s) + 1 /\ t[Len(s) + 1] = x
      /\ \A k \in 1..Len(s) : t[k] = s[k]
  BY <1>1, Appended
<1>3. QED
  BY <1>1, <1>2

LEMMA MeantVisitChild ==
  ASSUME RunInv, RunInv', MeaningInv, VisitChild, UNCHANGED <<recordingVars, hold>>
  PROVE  MeaningInv'
<1>1. PICK pending : pending = IF phase = "lower" THEN ToLower(Top) ELSE ToEvaluate(Top)
  OBVIOUS
<1>2. /\ stack # << >> /\ pending # {}
      /\ stack' = Append(stack, Children(Top)[Min(pending)])
      /\ UNCHANGED <<phase, temps, recording, store, next, graph, ids, code, inputs, bindings,
                     evaluated>>
      /\ UNCHANGED <<cipher, blocks>>
  BY <1>1 DEF VisitChild, lowering, store
<1>3. CASE phase \notin Walking
  <2>1. phase # "build"
    BY <1>2 DEF RunInv, Staged
  <2>2. QED
    BY <1>2, <1>3, <2>1, MeantElsewhere
<1>4. CASE phase \in Walking
  <2>1. WalkMeans /\ GraphIn(graph)
    BY <1>4, WalkFacts
  <2>2. phase \in {"lower", "evaluate"}
    BY <1>2, <1>4, <2>1 DEF WalkMeans, Walking
  <2>3. PICK k, root :
          /\ AtRoot(k, root)
          /\ \/ stack = <<root>> /\ Top = root
             \/ /\ Len(stack) = 2 /\ stack[1] = root /\ Top = stack[2]
                /\ \E j \in {1, 2} : Top = Children(root)[j]
                /\ IsLeaf(Top) /\ ~Visited(Top)
    BY <1>2, <1>4, WalkPosition
  <2>4. stack \in Seq(DOMAIN graph.nodes)
    BY <2>2 DEF RunInv, Staged, Lowering
  <2>5. /\ pending \subseteq DOMAIN Children(Top) /\ DOMAIN Children(Top) \subseteq {1, 2}
        /\ \A j \in pending : ~Visited(Children(Top)[j])
    BY <1>1, <1>2, <2>1, <2>2, <2>4, TopNode DEF ToLower, ToEvaluate, Visited
  <2>6. PICK j \in pending : j = Min(pending) /\ j \in {1, 2}
    <3>1. pending \subseteq {1, 2} /\ pending \subseteq Nat
      BY <2>5
    <3>2. QED
      BY <1>2, <3>1, LeastOf
  <2>7. ~IsLeaf(Top)
    <3>1. ASSUME IsLeaf(Top) PROVE FALSE
      <4>1. Top \in DOMAIN graph.nodes
        BY <1>2, <2>1, <2>4, TopNode
      <4>2. PICK node : node = graph.nodes[Top] /\ NodeIn(Top, node) /\ node.op = 0
        BY <2>1, <3>1, <4>1 DEF GraphIn, IsLeaf
      <4>3. 0 \notin DOMAIN recording
        BY <1>4, WalkFacts
      <4>4. node.children = << >>
        BY <4>2, <4>3 DEF NodeIn
      <4>5. Children(Top) = << >>
        BY <4>2, <4>4 DEF Children
      <4>6. DOMAIN Children(Top) = {}
        BY <4>5
      <4>7. QED
        BY <2>5, <2>6, <4>6
    <3>2. QED
      BY <3>1
  <2>8. stack = <<root>> /\ Top = root
    BY <2>3, <2>7
  <2>9. PICK c : c = Children(root)[j]
    OBVIOUS
  <2>10. /\ stack' = Append(stack, c) /\ ~Visited(c)
    BY <1>2, <2>5, <2>6, <2>8, <2>9
  <2>11. IsLeaf(c) /\ c \in DOMAIN graph.nodes
    BY <1>4, <2>3, <2>6, <2>9, <2>10, LeafUnderRoot
  <2>12. Len(stack') = 2 /\ stack'[1] = root /\ stack'[2] = c /\ stack' # << >>
    <3>1. Len(stack) = 1 /\ stack[1] = root
      BY <2>8
    <3>2. Len(stack') = 2 /\ stack'[2] = c /\ stack'[1] = root
      <4>1. PICK s, t : s = stack /\ t = stack'
        OBVIOUS
      <4>2. PICK S : S = DOMAIN graph.nodes
        OBVIOUS
      <4>3. s \in Seq(S) /\ c \in S /\ t = Append(s, c) /\ Len(s) = 1 /\ s[1] = root
        BY <2>4, <2>10, <2>11, <3>1, <4>1, <4>2
      <4>4. Len(t) = 2 /\ t[2] = c /\ t[1] = root
        BY <4>3, Pushed
      <4>5. QED
        BY <4>1, <4>4
    <3>3. stack' # << >>
      BY <3>2
    <3>4. QED
      BY <3>2, <3>3
  <2>13. Finished' = Finished
    BY <1>2, <2>12 DEF Finished
  <2>14. \A n : IsLeaf(n)' = IsLeaf(n) /\ Visited(n)' = Visited(n)
    BY <1>2 DEF IsLeaf, Visited
  <2>15. WalkMeans'
    <3>1. next' >= 2 /\ root = graph'.roots[next' - 1] /\ next' - 1 <= Len(graph'.roots)
      <4>1. next = k + 1 /\ k \in 1..Len(recording) /\ root = graph.roots[k]
        BY <2>3 DEF AtRoot
      <4>2. Len(recording) \in Nat /\ Len(graph.roots) = Len(recording)
        BY <1>4, WalkFacts
      <4>3. QED
        BY <1>2, <4>1, <4>2
    <3>2. \E i \in {1, 2} : stack'[2] = graph'.nodes[stack'[1]].children[i]
      BY <1>2, <2>6, <2>9, <2>12 DEF Children
    <3>3. /\ graph'.nodes[stack'[2]].op = 0
          /\ ~(IF phase' = "evaluate" THEN stack'[2] \in evaluated' ELSE ids'[stack'[2]] # 0)
      BY <1>2, <2>10, <2>11, <2>12 DEF IsLeaf, Visited
    <3>4. \A n \in DOMAIN graph.nodes : ~IsLeaf(n) => (Visited(n) <=> graph.nodes[n].op <= Finished)
      BY <2>1 DEF WalkMeans
    <3>5. evaluated' \subseteq DOMAIN graph'.nodes
      BY <1>2, <2>1 DEF WalkMeans
    <3>6. phase' \in {"lower", "evaluate"}
      BY <1>2, <2>2
    <3>7. QED
      BY <1>2, <2>12, <2>13, <2>14, <3>1, <3>2, <3>3, <3>4, <3>5, <3>6
         DEF WalkMeans, Children, IsLeaf, Visited
  <2>16. Settled
    BY <1>2, SettledOf
  <2>17. phase = "lower" => LoweringMeans'
    BY <1>2, <2>13, <2>16, LoweringStands DEF MeaningInv
  <2>18. phase = "evaluate" => EvaluationMeans'
    BY <1>2, <2>13, <2>16, EvaluationStands DEF MeaningInv
  <2>19. QED
    BY <1>2, <2>2, <2>15, <2>17, <2>18, MeantStep
<1>5. QED
  BY <1>3, <1>4

LEMMA MeantLoweringDone ==
  ASSUME RunInv, RunInv', MeaningInv, LoweringDone, UNCHANGED <<recordingVars, hold>>
  PROVE  MeaningInv'
<1>1. /\ phase = "lower" /\ stack = << >> /\ next > Len(graph.roots) /\ phase' = "lowered"
      /\ UNCHANGED <<temps, recording, store, next, graph, stack, ids, code, inputs, bindings,
                     evaluated>>
  BY DEF LoweringDone, graphVars, lowering
<1>2. phase \in Walking /\ phase' \in Walking /\ Settled
  BY <1>1, SettledOf DEF Walking
<1>3. /\ WalkMeans /\ LambdaInv /\ Len(graph.roots) \in Nat /\ next \in Int
      /\ LoweringMeans
  BY <1>1, <1>2, WalkFacts DEF MeaningInv
<1>4. GraphMeans'
  BY <1>2, GraphStands
<1>5. Finished' = Finished
  BY <1>1 DEF Finished
<1>6. WalkMeans'
  <2>1. next = Len(graph.roots) + 1
    BY <1>1, <1>3 DEF WalkMeans
  <2>2. \A n \in DOMAIN graph.nodes : ~IsLeaf(n) => (Visited(n) <=> graph.nodes[n].op <= Finished)
    BY <1>3 DEF WalkMeans
  <2>3. \A n : IsLeaf(n)' = IsLeaf(n) /\ Visited(n)' = Visited(n)
    BY <1>1 DEF IsLeaf, Visited
  <2>4. evaluated' \subseteq DOMAIN graph'.nodes
    BY <1>1, <1>3 DEF WalkMeans
  <2>5. next' - 1 <= Len(graph'.roots)
    BY <1>1, <1>3, <2>1
  <2>6. QED
    BY <1>1, <1>5, <2>1, <2>2, <2>3, <2>4, <2>5 DEF WalkMeans
<1>7. LoweringMeans'
  BY <1>1, <1>2, <1>3, <1>5, LoweringStands
<1>8. LambdaInv'
  BY <1>1, <1>3, LambdaKept DEF Translating
<1>9. Unstarted'
  BY <1>1, <1>2 DEF Unstarted, MeaningInv, Settled
<1>10. QED
  BY <1>1, <1>4, <1>6, <1>7, <1>8, <1>9 DEF MeaningInv

LEMMA OneLong ==
  ASSUME NEW S, NEW s \in Seq(S), Len(s) = 1
  PROVE  s = <<s[1]>>
OBVIOUS

LEMMA FirstOfTwo ==
  ASSUME NEW S, NEW s \in Seq(S), Len(s) = 2
  PROVE  SubSeq(s, 1, 1) = <<s[1]>>
<1>1. LET t == SubSeq(s, 1, 1) IN t \in Seq(S) /\ Len(t) = 1 /\ t[1] = s[1]
  OBVIOUS
<1>2. PICK t : t = SubSeq(s, 1, 1)
  OBVIOUS
<1>3. t \in Seq(S) /\ Len(t) = 1 /\ t[1] = s[1]
  BY <1>1, <1>2
<1>4. t = <<t[1]>>
  BY <1>3, OneLong
<1>5. QED
  BY <1>2, <1>3, <1>4

(* Back to the root from a leaf it reads.                                   *)
LEMMA LeafReturns ==
  ASSUME RunInv, MeaningInv, phase \in {"lower", "evaluate"}, stack # << >>, IsLeaf(Top), Return,
         UNCHANGED <<phase, next, graph>>,
         \A n \in DOMAIN graph.nodes : ~IsLeaf(n) => Visited(n)' = Visited(n),
         evaluated' \subseteq DOMAIN graph.nodes
  PROVE  /\ WalkMeans' /\ Finished' = Finished
         /\ \E k, root : /\ AtRoot(k, root) /\ stack' = <<root>>
                         /\ \E j \in {1, 2} : Top = Children(root)[j]
         /\ ~Visited(Top) /\ Top \in DOMAIN graph.nodes
<1>1. phase \in Walking
  BY DEF Walking
<1>2. PICK k, root :
        /\ AtRoot(k, root)
        /\ \/ stack = <<root>> /\ Top = root
           \/ /\ Len(stack) = 2 /\ stack[1] = root /\ Top = stack[2]
              /\ \E j \in {1, 2} : Top = Children(root)[j]
              /\ IsLeaf(Top) /\ ~Visited(Top)
  BY <1>1, WalkPosition
<1>3. ~IsLeaf(root) /\ next = k + 1 /\ k \in 1..Len(recording) /\ root = graph.roots[k]
  BY <1>2 DEF AtRoot
<1>4. /\ Len(stack) = 2 /\ stack[1] = root /\ Top = stack[2]
      /\ \E j \in {1, 2} : Top = Children(root)[j]
      /\ ~Visited(Top)
  BY <1>2, <1>3
<1>5. stack \in Seq(DOMAIN graph.nodes) /\ GraphIn(graph) /\ WalkMeans
  BY <1>1, WalkFacts DEF RunInv, Staged, Lowering
<1>6. stack' = <<root>>
  <2>1. PICK s, S : s = stack /\ S = DOMAIN graph.nodes
    OBVIOUS
  <2>2. s \in Seq(S) /\ Len(s) = 2 /\ s[1] = root
    BY <1>4, <1>5, <2>1
  <2>3. SubSeq(s, 1, 1) = <<s[1]>>
    BY <2>2, FirstOfTwo
  <2>4. QED
    BY <1>4, <2>1, <2>2, <2>3 DEF Return
<1>7. stack' # << >> /\ stack # << >>
  BY <1>6
<1>8. Finished' = Finished
  BY <1>7 DEF Finished
<1>9. WalkMeans'
  <2>1. Len(recording) \in Nat /\ Len(graph.roots) = Len(recording)
    BY <1>1, WalkFacts
  <2>2. next - 1 = k /\ next >= 2 /\ k <= Len(graph.roots)
    BY <1>3, <2>1
  <2>3. \A n \in DOMAIN graph.nodes : ~IsLeaf(n) => (Visited(n) <=> graph.nodes[n].op <= Finished)
    BY <1>5 DEF WalkMeans
  <2>4. \A n : IsLeaf(n)' = IsLeaf(n)
    BY DEF IsLeaf
  <2>5. QED
    BY <1>3, <1>6, <1>8, <2>2, <2>3, <2>4 DEF WalkMeans
<1>10. Top \in DOMAIN graph.nodes
  BY <1>5, TopNode
<1>11. QED
  BY <1>2, <1>4, <1>6, <1>8, <1>9, <1>10

LEMMA MeantEvaluateLeaf ==
  ASSUME RunInv, RunInv', MeaningInv, EvaluateLeaf, UNCHANGED <<recordingVars, hold>>
  PROVE  MeaningInv'
<1>1. /\ phase = "evaluate" /\ stack # << >> /\ IsLeaf(Top) /\ Return
      /\ evaluated' = evaluated \cup {Top}
      /\ UNCHANGED <<phase, temps, recording, store, next, graph>>
      /\ UNCHANGED <<cipher, blocks>>
  BY DEF EvaluateLeaf, EvaluateReady, store
<1>2. phase \in Walking /\ Settled /\ phase \in {"lower", "evaluate"}
  BY <1>1, SettledOf DEF Walking
<1>3. stack \in Seq(DOMAIN graph.nodes) /\ GraphIn(graph) /\ WalkMeans
  BY <1>1, <1>2, WalkFacts DEF RunInv, Staged
<1>4. Top \in DOMAIN graph.nodes
  BY <1>1, <1>3, TopNode
<1>5. evaluated' \subseteq DOMAIN graph.nodes
  BY <1>1, <1>3, <1>4 DEF WalkMeans
<1>6. \A n \in DOMAIN graph.nodes : ~IsLeaf(n) => Visited(n)' = Visited(n)
  BY <1>1 DEF Visited
<1>7. WalkMeans' /\ Finished' = Finished
  BY <1>1, <1>2, <1>5, <1>6, LeafReturns
<1>8. EvaluationMeans'
  BY <1>1, <1>2, <1>7, EvaluationStands DEF MeaningInv
<1>9. QED
  BY <1>1, <1>2, <1>7, <1>8, MeantStep

LEMMA MeantExecuteThrows ==
  ASSUME RunInv, RunInv', MeaningInv, ExecuteThrows, UNCHANGED <<recordingVars, hold>>
  PROVE  MeaningInv'
<1>1. /\ phase = "evaluate" /\ phase' = "throw"
      /\ UNCHANGED <<temps, recording, store, next, graph, evaluated>>
  BY DEF ExecuteThrows, EvaluateReady, graphVars
<1>2. Settled
  BY <1>1, SettledOf
<1>3. LambdaInv'
  BY <1>1, LambdaKept DEF MeaningInv, Translating
<1>4. Unstarted'
  BY <1>1, <1>2 DEF Unstarted, MeaningInv, Settled
<1>5. QED
  BY <1>1, <1>3, <1>4 DEF MeaningInv, Translating

(* The last operation executed, every caller variable holds what it should. *)
LEMMA MeantEvaluationDone ==
  ASSUME RunInv, RunInv', MeaningInv, EvaluationDone, UNCHANGED <<recordingVars, hold>>
  PROVE  MeaningInv'
<1>1. /\ phase = "evaluate" /\ stack = << >> /\ next > Len(graph.roots) /\ phase' = "return"
      /\ UNCHANGED <<temps, recording, store, next, graph, evaluated>>
      /\ UNCHANGED <<plain, cipher, blocks>>
  BY DEF EvaluationDone, graphVars, store
<1>2. phase \in Walking /\ Settled
  BY <1>1, SettledOf DEF Walking
<1>3. /\ WalkMeans /\ LambdaInv /\ ~poisoned /\ Len(graph.roots) = Len(recording)
      /\ Len(recording) \in Nat /\ next \in Int /\ EvaluationMeans
  BY <1>1, <1>2, WalkFacts DEF MeaningInv
<1>4. Finished = Len(recording)
  BY <1>1, <1>3 DEF WalkMeans, Finished
<1>5. ~clobbered /\ AllEncrypted => Delivered
  <2> SUFFICES ASSUME ~clobbered, AllEncrypted, NEW c \in live \cap Callers
               PROVE  Holds(c) = now[c]
    BY DEF Delivered
  <2>1. c \in Sources /\ c \in Entities /\ now[c] = After[Len(recording)][c]
    BY <1>1, <1>3, CallerStands DEF Translating
  <2>2. IsEncrypted(c) /\ blocks[cipher[c]].holds = After[Len(recording)][c]
    BY <1>3, <1>4, <2>1 DEF EvaluationMeans
  <2>3. QED
    BY <2>1, <2>2 DEF Holds
<1>6. LambdaInv'
  BY <1>1, <1>3, LambdaKept DEF Translating
<1>7. Unstarted'
  BY <1>1, <1>2 DEF Unstarted, MeaningInv, Settled
<1>8. AllEncrypted' = AllEncrypted /\ Delivered' = Delivered /\ clobbered' = clobbered
  BY <1>1, <1>2 DEF AllEncrypted, Delivered, Holds, IsEncrypted, Settled
<1>9. QED
  BY <1>1, <1>5, <1>6, <1>7, <1>8 DEF MeaningInv, Translating

-----------------------------------------------------------------------------
(* Evaluating it.                                                           *)

(* The root's own operation: nothing is left on the stack.                  *)
LEMMA RootReturns ==
  ASSUME RunInv, MeaningInv, phase \in {"lower", "evaluate"}, stack # << >>, ~IsLeaf(Top), Return,
         UNCHANGED <<phase, next, graph>>,
         \A n \in DOMAIN graph.nodes : ~IsLeaf(n) /\ n # Top => Visited(n)' = Visited(n),
         \A n : n = Top => Visited(n)', evaluated' \subseteq DOMAIN graph.nodes
  PROVE  \E k : AtRoot(k, Top) /\ WalkMeans' /\ Finished' = k
<1>1. phase \in Walking
  BY DEF Walking
<1>2. PICK k, root : AtRoot(k, root) /\ stack = <<root>> /\ Top = root
  BY <1>1, WalkPosition
<1>3. /\ ~IsLeaf(root) /\ next = k + 1 /\ k \in 1..Len(recording) /\ root = graph.roots[k]
      /\ Finished = k - 1 /\ root \in DOMAIN graph.nodes /\ graph.nodes[root].op = k
  BY <1>2 DEF AtRoot
<1>4. /\ WalkMeans /\ Len(graph.roots) = Len(recording) /\ Len(recording) \in Nat
      /\ GraphMeansIn(graph, Len(recording))
  BY <1>1, WalkFacts
<1>5. stack' = << >>
  <2>1. SubSeq(stack, 1, 0) = << >> /\ Len(stack) = 1
    BY <1>2
  <2>2. QED
    BY <2>1 DEF Return
<1>6. Finished' = k
  BY <1>3, <1>5 DEF Finished
<1>7. WalkMeans'
  <2>1. ASSUME NEW n \in DOMAIN graph.nodes, ~IsLeaf(n)
        PROVE  Visited(n)' <=> graph.nodes[n].op <= k
    <3>1. CASE n = root
      BY <1>2, <1>3, <3>1
    <3>2. CASE n # root
      <4>1. Visited(n)' = Visited(n)
        BY <1>2, <2>1, <3>2
      <4>2. Visited(n) <=> graph.nodes[n].op <= k - 1
        BY <1>3, <1>4, <2>1 DEF WalkMeans
      <4>3. graph.nodes[n].op \in 1..Len(recording) /\ graph.roots[graph.nodes[n].op] = n
        BY <1>4, <2>1 DEF GraphMeansIn, NodesMean, OperatorMeans, IsLeaf
      <4>4. graph.nodes[n].op # k
        BY <1>3, <3>2, <4>3
      <4>5. QED
        BY <1>3, <1>4, <4>1, <4>2, <4>3, <4>4
    <3>3. QED
      BY <3>1, <3>2
  <2>2. \A n : IsLeaf(n)' = IsLeaf(n)
    BY DEF IsLeaf
  <2>3. next' - 1 <= Len(graph'.roots)
    BY <1>3, <1>4
  <2>4. QED
    BY <1>5, <1>6, <2>1, <2>2, <2>3 DEF WalkMeans
<1>8. QED
  BY <1>2, <1>6, <1>7

(* What carrying out the k-th operation does to what entities hold.         *)
LEMMA RootOperation ==
  ASSUME RunInv, MeaningInv, phase \in Walking, NEW k, NEW root, AtRoot(k, root)
  PROVE  LET op == Recorded(root) IN
           /\ op = recording[k] /\ k \in 1..Len(recording) /\ Finished = k - 1
           /\ k - 1 \in 0..Len(recording) /\ op \in Recordable
           /\ op.operand1 \in Entities /\ op.operand2 \in Entities /\ Target(op) \in Entities
           /\ graph.nodes[root].entity = Target(op)
           /\ Meaning(root) = After[k][Target(op)]
           /\ After[k][Target(op)] = Written(op, After[k - 1])
           /\ \A e \in Entities : e # Target(op) => After[k][e] = After[k - 1][e]
           /\ \A e : WrittenBefore(e, k) <=> WrittenBefore(e, k - 1) \/ e = Target(op)
<1>1. PICK op, node : op = Recorded(root) /\ node = graph.nodes[root]
  OBVIOUS
<1>2. /\ k \in 1..Len(recording) /\ Finished = k - 1 /\ node.op = k
      /\ OperatorMeans(graph, Len(recording), root)
  BY <1>1 DEF AtRoot
<1>3. op = recording[k]
  BY <1>1, <1>2 DEF Recorded
<1>4. /\ recording \in Seq(Recordable) /\ Len(recording) \in Nat
      /\ OneWritten(recording, After, Len(recording))
  BY WalkFacts
<1>5. op \in Recordable /\ k \in Nat
  BY <1>2, <1>3, <1>4
<1>6. op.operand1 \in Entities /\ op.operand2 \in Entities /\ Target(op) \in Entities
  BY <1>5, MentionsAreEntities DEF Mentions
<1>7. node.entity = Target(op)
  BY <1>1, <1>2, <1>3 DEF OperatorMeans
<1>8. Meaning(root) = After[k][Target(op)]
  BY <1>1, <1>2, <1>5, <1>7 DEF Meaning, MeaningIn
<1>9. /\ After[k][Target(op)] = Written(op, After[k - 1])
      /\ \A e \in Entities : e # Target(op) => After[k][e] = After[k - 1][e]
  BY <1>2, <1>3, <1>4 DEF OneWritten
<1>10. \A e : WrittenBefore(e, k) <=> WrittenBefore(e, k - 1) \/ e = Target(op)
  <2>1. \A j : j \in 1..k <=> j \in 1..(k - 1) \/ j = k
    BY <1>2
  <2>2. QED
    BY <1>3, <2>1 DEF WrittenBefore, WrittenIn
<1>11. k - 1 \in 0..Len(recording)
  BY <1>2, <1>4
<1>12. QED
  BY <1>1, <1>2, <1>3, <1>5, <1>6, <1>7, <1>8, <1>9, <1>10, <1>11

(* With every caller variable encrypted, each operand is a source or has    *)
(* been written.                                                           *)
LEMMA OperandStands ==
  ASSUME RunInv, MeaningInv, phase \in Walking, AllEncrypted, NEW k \in 1..Len(recording),
         NEW e \in {recording[k].operand1, recording[k].operand2}
  PROVE  e \in Sources \/ WrittenBefore(e, k - 1)
<1>1. /\ ~poisoned /\ LambdaInv /\ k \in DOMAIN recording
  BY WalkFacts
<1>2. e \in Mentions(recording[k]) /\ map[e] = e
  BY <1>1 DEF Mentions, RunInv, RecordedCanonical
<1>3. e \in Names \cup DOMAIN temps /\ (ResultIn(temps, e) => WrittenBefore(e, k - 1))
  BY <1>1, <1>2 DEF LambdaInv, ResultsFirst, OperationFits, WrittenBefore
<1>4. CASE e \in DOMAIN temps
  BY <1>3, <1>4 DEF ResultIn, Sources
<1>5. CASE e \notin DOMAIN temps
  <2>1. e \in Names /\ e \in Entities /\ map[e] # Nothing
    BY <1>2, <1>3, <1>5, EntityFacts
  <2>2. e \in live \cup 1..Len(temps) /\ DOMAIN temps = 1..Len(temps)
    BY <2>1, UsableNames DEF RunInv, Registered
  <2>3. live \subseteq Callers /\ moved \cap Callers = {}
    BY <1>1 DEF LambdaInv, SourcesIntact, Walking, Underway, Translating
  <2>4. QED
    BY <1>5, <2>2, <2>3 DEF Sources, AllEncrypted
<1>6. QED
  BY <1>4, <1>5

(* What an entity holds when evaluation has got this far.                   *)
HoldsMeaning(e, k) ==
  IsEncrypted(e) /\ cipher[e] \in DOMAIN blocks /\ blocks[cipher[e]].holds = After[k][e]

LEMMA OperandHolds ==
  ASSUME RunInv, MeaningInv, phase = "evaluate", AllEncrypted, NEW k \in 1..Len(recording),
         Finished = k - 1, NEW e \in {recording[k].operand1, recording[k].operand2}
  PROVE  HoldsMeaning(e, k - 1)
<1>1. phase \in Walking
  BY DEF Walking
<1>2. e \in Sources \/ WrittenBefore(e, k - 1)
  BY <1>1, OperandStands
<1>3. e \in Entities
  <2>1. recording \in Seq(Recordable)
    BY DEF RunInv, RecordedTyped
  <2>2. recording[k] \in Recordable
    BY <2>1
  <2>3. QED
    BY <2>2, MentionsAreEntities DEF Mentions
<1>4. QED
  BY <1>2, <1>3 DEF MeaningInv, EvaluationMeans, HoldsMeaning

(* The operation of the root has been carried out: what it wrote is what it *)
(* should be, and nothing else has changed.                                *)
LEMMA Executed ==
  ASSUME RunInv, MeaningInv, phase = "evaluate", Settled, NEW k, NEW root, AtRoot(k, root),
         Finished' = k,
         AllEncrypted =>
           /\ cipher'[Target(Recorded(root))] # 0
           /\ cipher'[Target(Recorded(root))] \in DOMAIN blocks'
           /\ blocks'[cipher'[Target(Recorded(root))]].holds = After[k][Target(Recorded(root))],
         \A e \in Entities : e # Target(Recorded(root)) => cipher'[e] = cipher[e],
         \A b \in DOMAIN blocks : b \in DOMAIN blocks' /\ blocks'[b] = blocks[b]
  PROVE  EvaluationMeans'
<1>1. PICK t : t = Target(Recorded(root))
  OBVIOUS
<1>2. /\ Finished = k - 1 /\ t \in Entities
      /\ \A e \in Entities : e # t => After[k][e] = After[k - 1][e]
      /\ \A e : WrittenBefore(e, k) <=> WrittenBefore(e, k - 1) \/ e = t
  BY <1>1, RootOperation DEF Walking
<1>3. /\ After' = After /\ Sources' = Sources /\ AllEncrypted' = AllEncrypted
      /\ \A e, n : WrittenBefore(e, n)' = WrittenBefore(e, n)
  BY SettledMeans
<1>4. WrittenBefore(t, k)
  BY <1>2
<1>5. ASSUME AllEncrypted, NEW e \in Entities, e \in Sources \/ WrittenBefore(e, k)
      PROVE  /\ cipher'[e] # 0 /\ cipher'[e] \in DOMAIN blocks'
             /\ blocks'[cipher'[e]].holds = After[k][e]
  <2>1. CASE e = t
    BY <1>1, <1>5, <2>1
  <2>2. CASE e # t
    <3>1. HoldsMeaning(e, k - 1)
      BY <1>2, <1>5, <2>2 DEF MeaningInv, EvaluationMeans, HoldsMeaning
    <3>2. cipher'[e] = cipher[e] /\ After[k][e] = After[k - 1][e]
      BY <1>1, <1>2, <2>2
    <3>3. QED
      BY <3>1, <3>2 DEF HoldsMeaning, IsEncrypted
  <2>3. QED
    BY <2>1, <2>2
<1>6. \A e : WrittenBefore(e, Finished)' = WrittenBefore(e, k)
  BY <1>3
<1>7. QED
  BY <1>3, <1>5, <1>6 DEF EvaluationMeans, IsEncrypted

LEMMA MeantExecuteAssignment ==
  ASSUME RunInv, RunInv', MeaningInv, ExecuteAssignment, UNCHANGED <<recordingVars, hold>>
  PROVE  MeaningInv'
<1>1. PICK op, top : op = Recorded(Top) /\ top = Top
  OBVIOUS
<1>2. /\ phase = "evaluate" /\ stack # << >> /\ ~IsLeaf(Top) /\ Return
      /\ op.type = "Assignment"
      /\ UNCHANGED <<phase, temps, recording, blocks, next, graph>>
      /\ evaluated' = evaluated \cup {Top}
      /\ cipher' = IF IsEncrypted(op.operand2)
                     THEN [cipher EXCEPT ![op.operand1] = cipher[op.operand2]]
                     ELSE cipher
  BY <1>1 DEF ExecuteAssignment, EvaluateReady
<1>3. Settled /\ phase \in Walking /\ phase \in {"lower", "evaluate"}
  BY <1>2, SettledOf DEF Walking
<1>4. PICK k : AtRoot(k, top) /\ WalkMeans' /\ Finished' = k
  <2>1. \A n \in DOMAIN graph.nodes : ~IsLeaf(n) /\ n # Top => Visited(n)' = Visited(n)
    BY <1>2 DEF Visited
  <2>2. \A n : n = Top => Visited(n)'
    BY <1>2 DEF Visited
  <2>3. evaluated' \subseteq DOMAIN graph.nodes
    <3>1. stack \in Seq(DOMAIN graph.nodes) /\ GraphIn(graph) /\ WalkMeans
      BY <1>2, <1>3, WalkFacts DEF RunInv, Staged
    <3>2. QED
      BY <1>2, <3>1, TopNode DEF WalkMeans
  <2>4. QED
    BY <1>1, <1>2, <1>3, <2>1, <2>2, <2>3, RootReturns
<1>5. /\ op = recording[k] /\ k \in 1..Len(recording) /\ Finished = k - 1
      /\ op.operand1 \in Entities /\ op.operand2 \in Entities
      /\ After[k][Target(op)] = Written(op, After[k - 1])
  BY <1>1, <1>3, <1>4, RootOperation
<1>6. /\ Target(op) = op.operand1 /\ Written(op, After[k - 1]) = After[k - 1][op.operand2]
  BY <1>2 DEF Target, Written
<1>7. cipher \in [Entities -> 0..Len(blocks)]
  BY DEF RunInv, StoreTyped
<1>8. \A e \in Entities : e # op.operand1 => cipher'[e] = cipher[e]
  BY <1>2, <1>5, <1>7
<1>9. AllEncrypted =>
        /\ cipher'[op.operand1] # 0 /\ cipher'[op.operand1] \in DOMAIN blocks'
        /\ blocks'[cipher'[op.operand1]].holds = After[k][op.operand1]
  <2> SUFFICES ASSUME AllEncrypted
               PROVE  /\ cipher'[op.operand1] # 0 /\ cipher'[op.operand1] \in DOMAIN blocks'
                      /\ blocks'[cipher'[op.operand1]].holds = After[k][op.operand1]
    OBVIOUS
  <2>1. HoldsMeaning(op.operand2, k - 1)
    BY <1>2, <1>5, OperandHolds
  <2>2. cipher'[op.operand1] = cipher[op.operand2]
    BY <1>2, <1>5, <1>7, <2>1 DEF HoldsMeaning
  <2>3. QED
    BY <1>2, <1>5, <1>6, <2>1, <2>2 DEF HoldsMeaning, IsEncrypted
<1>10. EvaluationMeans'
  <2>1. Target(Recorded(top)) = op.operand1
    BY <1>1, <1>6
  <2>2. \A b \in DOMAIN blocks : b \in DOMAIN blocks' /\ blocks'[b] = blocks[b]
    BY <1>2
  <2>3. AllEncrypted =>
           /\ cipher'[Target(Recorded(top))] # 0
           /\ cipher'[Target(Recorded(top))] \in DOMAIN blocks'
           /\ blocks'[cipher'[Target(Recorded(top))]].holds = After[k][Target(Recorded(top))]
    BY <1>9, <2>1
  <2>4. QED
    BY <1>2, <1>3, <1>4, <1>8, <2>1, <2>2, <2>3, Executed
<1>11. QED
  BY <1>2, <1>3, <1>4, <1>10, MeantStep

LEMMA MeantExecuteArithmetic ==
  ASSUME RunInv, RunInv', MeaningInv, ExecuteArithmetic, UNCHANGED <<recordingVars, hold>>
  PROVE  MeaningInv'
<1>1. PICK op, top, value :
        /\ op = Recorded(Top) /\ top = Top
        /\ value = <<op.type, Holds(op.operand1), Holds(op.operand2)>>
  OBVIOUS
<1>2. /\ phase = "evaluate" /\ stack # << >> /\ ~IsLeaf(Top) /\ Return
      /\ op.type \in Arithmetic
      /\ UNCHANGED <<phase, temps, recording, next, graph>>
      /\ evaluated' = evaluated \cup {Top}
      /\ blocks' = Append(blocks, Block(Len(blocks) + 1, "ours", value))
      /\ cipher' = [cipher EXCEPT ![op.result] = Len(blocks) + 1]
  BY <1>1 DEF ExecuteArithmetic, EvaluateReady
<1>3. Settled /\ phase \in Walking /\ phase \in {"lower", "evaluate"}
  BY <1>2, SettledOf DEF Walking
<1>4. PICK k : AtRoot(k, top) /\ WalkMeans' /\ Finished' = k
  <2>1. \A n \in DOMAIN graph.nodes : ~IsLeaf(n) /\ n # Top => Visited(n)' = Visited(n)
    BY <1>2 DEF Visited
  <2>2. \A n : n = Top => Visited(n)'
    BY <1>2 DEF Visited
  <2>3. evaluated' \subseteq DOMAIN graph.nodes
    <3>1. stack \in Seq(DOMAIN graph.nodes) /\ GraphIn(graph) /\ WalkMeans
      BY <1>2, <1>3, WalkFacts DEF RunInv, Staged
    <3>2. QED
      BY <1>2, <3>1, TopNode DEF WalkMeans
  <2>4. QED
    BY <1>1, <1>2, <1>3, <2>1, <2>2, <2>3, RootReturns
<1>5. /\ op = recording[k] /\ k \in 1..Len(recording) /\ Finished = k - 1
      /\ Target(op) \in Entities /\ After[k][Target(op)] = Written(op, After[k - 1])
  BY <1>1, <1>3, <1>4, RootOperation
<1>6. op.type # "Assignment"
  BY <1>2 DEF Arithmetic
<1>7. /\ Target(op) = op.result
      /\ Written(op, After[k - 1]) =
           <<op.type, After[k - 1][op.operand1], After[k - 1][op.operand2]>>
  BY <1>6 DEF Target, Written
<1>8. StoreTyped
  BY DEF RunInv
<1>9. /\ Len(blocks) \in Nat /\ DOMAIN blocks = 1..Len(blocks)
      /\ DOMAIN blocks' = 1..(Len(blocks) + 1)
      /\ blocks'[Len(blocks) + 1] = Block(Len(blocks) + 1, "ours", value)
      /\ \A b \in DOMAIN blocks : b \in DOMAIN blocks' /\ blocks'[b] = blocks[b]
  <2>1. PICK x, o, p : /\ x = Block(Len(blocks) + 1, "ours", value)
                       /\ o = blocks /\ p = Append(o, x)
    OBVIOUS
  <2>2. o \in Seq(Range(o)) /\ blocks' = p
    BY <1>2, <1>8, <2>1 DEF StoreTyped
  <2>3. /\ Len(o) \in Nat /\ DOMAIN o = 1..Len(o) /\ DOMAIN p = 1..(Len(o) + 1)
        /\ p[Len(o) + 1] = x /\ \A b \in 1..Len(o) : p[b] = o[b]
    BY <2>1, <2>2, SequenceGrows
  <2>4. \A b \in 1..Len(o) : b \in 1..(Len(o) + 1)
    BY <2>3
  <2>5. QED
    BY <2>1, <2>2, <2>3, <2>4
<1>10. cipher \in [Entities -> 0..Len(blocks)] /\ op.result \in Entities
  BY <1>5, <1>7, <1>8 DEF StoreTyped
<1>11. /\ cipher'[op.result] = Len(blocks) + 1
       /\ \A e \in Entities : e # op.result => cipher'[e] = cipher[e]
  BY <1>2, <1>10
<1>12. AllEncrypted => value = After[k][op.result]
  <2> SUFFICES ASSUME AllEncrypted PROVE value = After[k][op.result]
    OBVIOUS
  <2>1. HoldsMeaning(op.operand1, k - 1) /\ HoldsMeaning(op.operand2, k - 1)
    BY <1>2, <1>5, OperandHolds
  <2>2. /\ Holds(op.operand1) = After[k - 1][op.operand1]
        /\ Holds(op.operand2) = After[k - 1][op.operand2]
    BY <2>1 DEF HoldsMeaning, Holds
  <2>3. QED
    BY <1>1, <1>5, <1>7, <2>2
<1>13. EvaluationMeans'
  <2>1. Target(Recorded(top)) = op.result
    BY <1>1, <1>7
  <2>2. Len(blocks) + 1 # 0 /\ Len(blocks) + 1 \in DOMAIN blocks'
    BY <1>9
  <2>3. Block(Len(blocks) + 1, "ours", value).holds = value
    BY DEF Block
  <2>4. AllEncrypted =>
           /\ cipher'[Target(Recorded(top))] # 0
           /\ cipher'[Target(Recorded(top))] \in DOMAIN blocks'
           /\ blocks'[cipher'[Target(Recorded(top))]].holds = After[k][Target(Recorded(top))]
    BY <1>9, <1>11, <1>12, <2>1, <2>2, <2>3
  <2>5. QED
    BY <1>2, <1>3, <1>4, <1>9, <1>11, <2>1, <2>4, Executed
<1>14. QED
  BY <1>2, <1>3, <1>4, <1>13, MeantStep

-----------------------------------------------------------------------------
(* Lowering it.                                                             *)

(* One node more has been given an id, and its entity is bound to it: what  *)
(* holds of the earlier ids and bindings still does.                        *)
BoundMore(top, id, m) ==
  /\ ids[top] = 0 /\ ids \in [DOMAIN graph.nodes -> Nat] /\ top \in DOMAIN graph.nodes
  /\ ids' = [ids EXCEPT ![top] = id]
  /\ m = Len(bindings) /\ m \in Nat /\ DOMAIN bindings = 1..m /\ DOMAIN bindings' = 1..(m + 1)
  /\ bindings'[m + 1].id = id /\ bindings'[m + 1].entity = graph.nodes[top].entity
  /\ \A b \in 1..m : bindings'[b] = bindings[b] /\ bindings[b].id # 0
                     /\ bindings[b].entity \in Entities
  /\ id \in Nat \ {0}

LEMMA BindMore ==
  ASSUME Lowering, NEW top \in DOMAIN graph.nodes, ids[top] = 0, NEW id \in Nat \ {0},
         Bind(top, id)
  PROVE  \E m : BoundMore(top, id, m)
<1>1. PICK T, b, o, p :
        /\ T = [id : 1..(NextId - 1), entity : Entities]
        /\ b = [id |-> id, entity |-> graph.nodes[top].entity]
        /\ o = bindings /\ p = Append(o, b)
  OBVIOUS
<1>2. ids' = [ids EXCEPT ![top] = id] /\ bindings' = p
  BY <1>1 DEF Bind
<1>3. o \in Seq(T) /\ ids \in [DOMAIN graph.nodes -> 0..(NextId - 1)] /\ NextId \in Nat
  BY <1>1, NumbersFacts DEF Lowering
<1>4. o \in Seq(Range(o))
  BY <1>3, SequenceOfElements
<1>5. /\ Len(o) \in Nat /\ DOMAIN o = 1..Len(o) /\ DOMAIN p = 1..(Len(o) + 1)
      /\ p[Len(o) + 1] = b /\ \A k \in 1..Len(o) : p[k] = o[k]
  BY <1>1, <1>4, SequenceGrows
<1>6. \A k \in 1..Len(o) : o[k] \in T
  BY <1>3
<1>7. \A k \in 1..Len(o) : o[k].id # 0 /\ o[k].entity \in Entities
  BY <1>1, <1>6
<1>8. ids \in [DOMAIN graph.nodes -> Nat]
  BY <1>3
<1>9. b.id = id /\ b.entity = graph.nodes[top].entity
  BY <1>1
<1>10. BoundMore(top, id, Len(o))
  BY <1>1, <1>2, <1>5, <1>7, <1>8, <1>9 DEF BoundMore
<1>11. QED
  BY <1>10

LEMMA IdsMore ==
  ASSUME NEW top, NEW id, NEW m, BoundMore(top, id, m)
  PROVE  /\ ids'[top] = id
         /\ \A n \in DOMAIN graph.nodes : n # top => ids'[n] = ids[n]
         /\ \A n \in DOMAIN graph.nodes : ids[n] # 0 => n # top /\ ids'[n] = ids[n]
BY DEF BoundMore

LEMMA IdsMean ==
  ASSUME RunInv, LoweringMeans, Settled, NEW top, NEW id, NEW m, BoundMore(top, id, m),
         \A n \in DOMAIN graph.nodes : ids[n] = id => Meaning(n) = Meaning(top)
  PROVE  \A k, n \in DOMAIN graph'.nodes :
           ids'[k] = ids'[n] /\ ids'[n] # 0 => Meaning(k)' = Meaning(n)'
<1> SUFFICES ASSUME NEW k \in DOMAIN graph.nodes, NEW n \in DOMAIN graph.nodes,
                    ids'[k] = ids'[n], ids'[n] # 0
             PROVE  Meaning(k) = Meaning(n)
  BY SettledMeans DEF Settled
<1>1. CASE k # top /\ n # top
  BY <1>1, IdsMore DEF LoweringMeans
<1>2. CASE k = top
  BY <1>2, IdsMore
<1>3. CASE n = top
  BY <1>3, IdsMore
<1>4. QED
  BY <1>1, <1>2, <1>3

LEMMA FirstBoundStill ==
  ASSUME NEW top, NEW i, NEW m, BoundMore(top, i, m), NEW id, NEW e, FirstBound(id, e)
  PROVE  FirstBound(id, e)'
<1>1. PICK b \in 1..m :
        /\ bindings[b].id = id /\ bindings[b].entity = e
        /\ \A a \in 1..(b - 1) : bindings[a].id # id
  BY DEF FirstBound, BoundMore
<1>2. m \in Nat /\ b \in DOMAIN bindings' /\ \A a \in 1..(b - 1) : a \in 1..m
  BY <1>1 DEF BoundMore
<1>3. QED
  BY <1>1, <1>2 DEF FirstBound, BoundMore

LEMMA InputsStillMean ==
  ASSUME RunInv, LoweringMeans, Settled, NEW top, NEW i, NEW m, BoundMore(top, i, m)
  PROVE  \A id \in InputIds : \E n \in DOMAIN graph'.nodes :
           IsLeaf(n)' /\ ids'[n] = id /\ FirstBound(id, graph.nodes[n].entity)'
<1> SUFFICES ASSUME NEW id \in InputIds
             PROVE  \E n \in DOMAIN graph'.nodes :
                      IsLeaf(n)' /\ ids'[n] = id /\ FirstBound(id, graph.nodes[n].entity)'
  OBVIOUS
<1>1. PICK n \in DOMAIN graph.nodes :
        IsLeaf(n) /\ ids[n] = id /\ FirstBound(id, graph.nodes[n].entity)
  BY DEF LoweringMeans
<1>2. PICK b \in DOMAIN bindings : bindings[b].id = id
  BY <1>1 DEF FirstBound
<1>3. id # 0
  BY <1>2 DEF BoundMore
<1>4. ids'[n] = id
  BY <1>1, <1>3, IdsMore
<1>5. FirstBound(id, graph.nodes[n].entity)' 
  <2>1. PICK e : e = graph.nodes[n].entity /\ e = graph'.nodes[n].entity
    BY DEF Settled
  <2>2. FirstBound(id, e)
    BY <1>1, <2>1
  <2>3. FirstBound(id, e)'
    BY <2>2, FirstBoundStill
  <2>4. QED
    BY <2>1, <2>3 DEF FirstBound
<1>6. IsLeaf(n)' /\ n \in DOMAIN graph'.nodes
  BY <1>1, SettledMeans DEF Settled
<1>7. QED
  BY <1>4, <1>5, <1>6

LEMMA CodeStillMeans ==
  ASSUME RunInv, LoweringMeans, Settled, NEW top, NEW i, NEW m, BoundMore(top, i, m),
         NEW j \in DOMAIN code, code'[j] = code[j]
  PROVE  Follows(j)'
<1>1. Follows(j)
  BY DEF LoweringMeans
<1>2. PICK n \in DOMAIN graph.nodes, x \in DOMAIN graph.nodes, y \in DOMAIN graph.nodes :
        /\ ids[n] = code[j].res /\ ids[x] = code[j].args[1] /\ ids[n] # 0 /\ ids[x] # 0
        /\ code[j].op \in {"ADD_CC", "HMULT", "ADD_CS", "MULT_CS"}
        /\ IF code[j].op \in {"ADD_CC", "HMULT"} THEN ids[y] = code[j].args[2] /\ ids[y] # 0
           ELSE IsLeaf(y) /\ graph.nodes[y].entity = code[j].fparam
        /\ Meaning(n) = <<Kind(code[j].op), Meaning(x), Meaning(y)>>
  BY <1>1 DEF Follows
<1>3. ids'[n] = ids[n] /\ ids'[x] = ids[x] /\ (ids[y] # 0 => ids'[y] = ids[y])
  BY <1>2, IdsMore
<1>4. /\ Meaning(n)' = Meaning(n) /\ Meaning(x)' = Meaning(x) /\ Meaning(y)' = Meaning(y)
      /\ IsLeaf(y)' = IsLeaf(y) /\ graph' = graph
  BY SettledMeans DEF Settled
<1>5. QED
  BY <1>2, <1>3, <1>4 DEF Follows, Kind

LEMMA BindingsStillMean ==
  ASSUME RunInv, LoweringMeans, Settled, NEW top, NEW i, NEW m, BoundMore(top, i, m),
         NEW k, Finished' = k, Meaning(top) = After[k][graph.nodes[top].entity],
         \A e \in Entities : e # graph.nodes[top].entity => After[k][e] = After[Finished][e]
  PROVE  \A b \in DOMAIN bindings' : LastBound(b)' =>
           \E n \in DOMAIN graph'.nodes :
             ids'[n] = bindings'[b].id /\ Meaning(n)' = After'[Finished'][bindings'[b].entity]
<1> SUFFICES ASSUME NEW b \in 1..(m + 1), LastBound(b)'
             PROVE  \E n \in DOMAIN graph.nodes :
                      ids'[n] = bindings'[b].id /\ Meaning(n) = After[k][bindings'[b].entity]
  <2>1. DOMAIN bindings' = 1..(m + 1)
    BY DEF BoundMore
  <2>2. QED
    BY <2>1, SettledMeans DEF Settled
<1>1. CASE b = m + 1
  BY <1>1, IdsMore DEF BoundMore
<1>2. CASE b # m + 1
  <2>1. m \in Nat /\ b \in 1..m /\ m + 1 > b /\ m + 1 \in 1..(m + 1)
    BY <1>2 DEF BoundMore
  <2>2. bindings'[b] = bindings[b] /\ bindings[b].id # 0 /\ bindings[b].entity \in Entities
    BY <2>1 DEF BoundMore
  <2>3. bindings[b].entity # graph.nodes[top].entity
    BY <2>1, <2>2 DEF LastBound, BoundMore
  <2>4. LastBound(b)
    BY <2>1, <2>2 DEF LastBound, BoundMore
  <2>5. PICK n \in DOMAIN graph.nodes :
          ids[n] = bindings[b].id /\ Meaning(n) = After[Finished][bindings[b].entity]
    BY <2>1, <2>4 DEF LoweringMeans, BoundMore
  <2>6. ids'[n] = ids[n]
    BY <2>2, <2>5, IdsMore
  <2>7. QED
    BY <2>2, <2>3, <2>5, <2>6
<1>3. QED
  BY <1>1, <1>2

LEMMA BoundStill ==
  ASSUME NEW top, NEW i, NEW m, BoundMore(top, i, m)
  PROVE  Bound \subseteq Bound' /\ graph.nodes[top].entity \in Bound'
<1>1. ASSUME NEW e \in Bound PROVE e \in Bound'
  <2>1. PICK b \in 1..m : bindings[b].entity = e
    BY <1>1 DEF Bound, BoundMore
  <2>2. b \in DOMAIN bindings' /\ bindings'[b].entity = e
    BY <2>1 DEF BoundMore
  <2>3. QED
    BY <2>2 DEF Bound
<1>2. graph.nodes[top].entity \in Bound'
  <2>1. m + 1 \in DOMAIN bindings' /\ bindings'[m + 1].entity = graph.nodes[top].entity
    BY DEF BoundMore
  <2>2. QED
    BY <2>1 DEF Bound
<1>3. QED
  BY <1>1, <1>2

(* The top of the stack has no id yet.                                      *)
LEMMA TopUnnumbered ==
  ASSUME RunInv, MeaningInv, Ready
  PROVE  /\ phase = "lower" /\ phase \in Walking /\ stack # << >> /\ WalkMeans /\ LoweringMeans
         /\ Lowering /\ GraphIn(graph) /\ Numbered
         /\ Top \in DOMAIN graph.nodes /\ ids[Top] = 0
         /\ NextId \in Nat \ {0} /\ \A n \in DOMAIN graph.nodes : ids[n] \in 0..(NextId - 1)
<1>1. /\ phase = "lower" /\ phase \in Walking /\ stack # << >> /\ Lowering /\ GraphIn(graph)
      /\ Numbered
  BY LowerFacts DEF Walking
<1>2. WalkMeans /\ LoweringMeans
  BY <1>1, WalkFacts DEF MeaningInv
<1>3. Top \in DOMAIN graph.nodes
  BY <1>1, TopNode DEF Lowering
<1>4. ~Visited(Top)
  BY <1>1, WalkPosition DEF AtRoot
<1>5. ids[Top] = 0
  BY <1>1, <1>4 DEF Visited
<1>6. NextId \in Nat \ {0} /\ \A n \in DOMAIN graph.nodes : ids[n] \in 0..(NextId - 1)
  BY <1>1, NumbersFacts DEF Lowering
<1>7. QED
  BY <1>1, <1>2, <1>3, <1>5, <1>6

LEMMA MeantLowerLeaf ==
  ASSUME RunInv, RunInv', MeaningInv, LowerLeaf, UNCHANGED <<recordingVars, hold>>
  PROVE  MeaningInv'
<1>1. /\ Ready /\ IsLeaf(Top) /\ inputs' = Append(inputs, NextId) /\ Bind(Top, NextId) /\ Return
      /\ UNCHANGED <<phase, temps, recording, store, next, graph, code, evaluated>>
  BY DEF LowerLeaf
<1>2. /\ phase = "lower" /\ phase \in Walking /\ stack # << >> /\ WalkMeans /\ LoweringMeans
      /\ Lowering /\ Numbered
  BY <1>1, TopUnnumbered
<1>3. PICK top, N : top = Top /\ N = NextId
  OBVIOUS
<1>4. /\ top \in DOMAIN graph.nodes /\ ids[top] = 0 /\ N \in Nat \ {0} /\ IsLeaf(top)
      /\ \A n \in DOMAIN graph.nodes : ids[n] \in 0..(N - 1)
  BY <1>1, <1>3, TopUnnumbered
<1>5. PICK m : BoundMore(top, N, m)
  BY <1>1, <1>2, <1>3, <1>4, BindMore
<1>6. Settled
  BY <1>1, SettledOf
<1>7. /\ WalkMeans' /\ Finished' = Finished
      /\ \E k, root : AtRoot(k, root) /\ \E j \in {1, 2} : Top = Children(root)[j]
  <2>1. \A n \in DOMAIN graph.nodes : ~IsLeaf(n) => Visited(n)' = Visited(n)
    <3>1. \A n \in DOMAIN graph.nodes : ~IsLeaf(n) => ids'[n] = ids[n]
      BY <1>4, <1>5, IdsMore
    <3>2. QED
      BY <1>1, <3>1 DEF Visited
  <2>2. evaluated' \subseteq DOMAIN graph.nodes
    BY <1>1, <1>2 DEF WalkMeans
  <2>3. QED
    BY <1>1, <1>2, <2>1, <2>2, LeafReturns
<1>8. PICK e : e = graph.nodes[top].entity
  OBVIOUS
<1>9. Meaning(top) = After[Finished][e]
  <2>0. PICK k, root : AtRoot(k, root) /\ \E j \in {1, 2} : top = Children(root)[j]
    BY <1>3, <1>7
  <2>1. PICK j \in {1, 2} : AtRoot(k, root) /\ top = Children(root)[j]
    BY <2>0
  <2>2. PICK node : node = graph.nodes[root]
    OBVIOUS
  <2>3. OperatorMeans(graph, Len(recording), root) /\ node.op = k /\ Finished = k - 1
    BY <2>1, <2>2 DEF AtRoot
  <2>4. top = node.children[j]
    BY <2>1, <2>2 DEF Children
  <2>5. PICK operand : operand = <<recording[k].operand1, recording[k].operand2>>
    OBVIOUS
  <2>6. MeaningIn(graph, top) = After[k - 1][operand[j]] /\ graph.nodes[top].entity = operand[j]
    BY <2>2, <2>3, <2>4, <2>5 DEF OperatorMeans
  <2>7. QED
    BY <1>8, <2>3, <2>6 DEF Meaning
<1>10. \A k, n \in DOMAIN graph'.nodes :
         ids'[k] = ids'[n] /\ ids'[n] # 0 => Meaning(k)' = Meaning(n)'
  <2>1. \A n \in DOMAIN graph.nodes : ids[n] # N
    BY <1>4
  <2>2. QED
    BY <1>2, <1>5, <1>6, <2>1, IdsMean
<1>11. \A id \in InputIds' : \E n \in DOMAIN graph'.nodes :
         IsLeaf(n)' /\ ids'[n] = id /\ FirstBound(id, graph.nodes[n].entity)'
  <2>1. \A id \in InputIds' : id \in InputIds \/ id = N
    <3>1. inputs \in Seq(Nat) /\ inputs' = Append(inputs, N)
      BY <1>1, <1>2, <1>3 DEF Numbered
    <3>2. /\ DOMAIN inputs' = 1..(Len(inputs) + 1) /\ inputs'[Len(inputs) + 1] = N
          /\ Len(inputs) \in Nat /\ \A k \in 1..Len(inputs) : inputs'[k] = inputs[k]
          /\ DOMAIN inputs = 1..Len(inputs)
      BY <1>4, <3>1, Appended
    <3>3. \A k \in 1..(Len(inputs) + 1) : k \in 1..Len(inputs) \/ k = Len(inputs) + 1
      BY <3>2
    <3>4. QED
      BY <3>2, <3>3 DEF InputIds
  <2>2. FirstBound(N, e)'
    <3>1. \A b \in 1..m : bindings'[b].id # N
      <4>1. bindings \in Seq([id : 1..(N - 1), entity : Entities])
        BY <1>2, <1>3 DEF Lowering
      <4>2. \A b \in DOMAIN bindings : bindings[b].id \in 1..(N - 1)
        <5>1. PICK T : T = [id : 1..(N - 1), entity : Entities]
          OBVIOUS
        <5>2. bindings \in Seq(T)
          BY <4>1, <5>1, Zenon
        <5>3. \A b \in DOMAIN bindings : bindings[b] \in T
          BY <5>2
        <5>4. QED
          BY <5>1, <5>3
      <4>3. QED
        BY <1>4, <1>5, <4>2 DEF BoundMore
    <3>2. m + 1 \in DOMAIN bindings' /\ (m + 1) - 1 = m
      BY <1>5 DEF BoundMore
    <3>3. bindings'[m + 1].id = N /\ bindings'[m + 1].entity = e
      BY <1>5, <1>8 DEF BoundMore
    <3>4. QED
      BY <3>1, <3>2, <3>3 DEF FirstBound
  <2>3. IsLeaf(top)' /\ ids'[top] = N /\ graph'.nodes[top].entity = e /\ top \in DOMAIN graph'.nodes
    BY <1>1, <1>4, <1>5, <1>8, IdsMore DEF IsLeaf
  <2>4. FirstBound(N, graph.nodes[top].entity)'
    BY <2>2, <2>3 DEF FirstBound
  <2>5. QED
    BY <1>2, <1>5, <1>6, <2>1, <2>3, <2>4, InputsStillMean
<1>12. \A i \in DOMAIN code' : Follows(i)'
  BY <1>1, <1>2, <1>5, <1>6, CodeStillMeans
<1>13. \A b \in DOMAIN bindings' : LastBound(b)' =>
           \E n \in DOMAIN graph'.nodes :
             ids'[n] = bindings'[b].id /\ Meaning(n)' = After'[Finished'][bindings'[b].entity]
  BY <1>2, <1>5, <1>6, <1>7, <1>8, <1>9, BindingsStillMean
<1>14. \A j \in 1..Finished' : Target(recording'[j]) \in Bound'
  <2>1. \A j \in 1..Finished : Target(recording[j]) \in Bound
    BY <1>2 DEF LoweringMeans
  <2>2. Bound \subseteq Bound'
    BY <1>5, BoundStill
  <2>3. QED
    BY <1>1, <1>7, <2>1, <2>2
<1>15. LoweringMeans'
  BY <1>10, <1>11, <1>12, <1>13, <1>14 DEF LoweringMeans
<1>16. QED
  BY <1>1, <1>2, <1>7, <1>15, MeantStep

(* The root of an operation has been given an id: its entity is bound to    *)
(* it, and the inputs are as they were.                                    *)
LEMMA RootBound ==
  ASSUME RunInv, MeaningInv, phase = "lower", Settled, NEW k, NEW top, AtRoot(k, top),
         Finished' = k, NEW id, NEW m, BoundMore(top, id, m), UNCHANGED inputs,
         \A n \in DOMAIN graph.nodes : ids[n] = id => Meaning(n) = Meaning(top),
         \A i \in DOMAIN code' : Follows(i)'
  PROVE  LoweringMeans'
<1>1. LoweringMeans /\ phase \in Walking
  BY DEF MeaningInv, Walking
<1>2. PICK op : op = Recorded(top)
  OBVIOUS
<1>3. /\ op = recording[k] /\ k \in 1..Len(recording) /\ Finished = k - 1
      /\ graph.nodes[top].entity = Target(op) /\ Meaning(top) = After[k][Target(op)]
      /\ \A e \in Entities : e # Target(op) => After[k][e] = After[k - 1][e]
  BY <1>1, <1>2, RootOperation
<1>4. \A j, n \in DOMAIN graph'.nodes :
         ids'[j] = ids'[n] /\ ids'[n] # 0 => Meaning(j)' = Meaning(n)'
  BY <1>1, IdsMean
<1>5. \A i \in InputIds' : \E n \in DOMAIN graph'.nodes :
         IsLeaf(n)' /\ ids'[n] = i /\ FirstBound(i, graph.nodes[n].entity)'
  <2>1. InputIds' = InputIds
    BY DEF InputIds
  <2>2. QED
    BY <1>1, <2>1, InputsStillMean
<1>6. \A b \in DOMAIN bindings' : LastBound(b)' =>
           \E n \in DOMAIN graph'.nodes :
             ids'[n] = bindings'[b].id /\ Meaning(n)' = After'[Finished'][bindings'[b].entity]
  BY <1>1, <1>3, BindingsStillMean
<1>7. \A j \in 1..Finished' : Target(recording'[j]) \in Bound'
  <2>1. \A j \in 1..(k - 1) : Target(recording[j]) \in Bound
    BY <1>1, <1>3 DEF LoweringMeans
  <2>2. Bound \subseteq Bound' /\ Target(recording[k]) \in Bound'
    BY <1>3, BoundStill
  <2>3. \A j \in 1..k : j \in 1..(k - 1) \/ j = k
    BY <1>3
  <2>4. recording' = recording
    BY DEF Settled
  <2>5. QED
    BY <2>1, <2>2, <2>3, <2>4
<1>8. QED
  BY <1>4, <1>5, <1>6, <1>7 DEF LoweringMeans

(* The stack is empty once the root has its id.                             *)
LEMMA RootNumbered ==
  ASSUME RunInv, MeaningInv, Ready, ~IsLeaf(Top), Return, NEW id \in Nat \ {0}, Bind(Top, id),
         UNCHANGED <<phase, temps, recording, store, next, graph, recordingVars, evaluated>>
  PROVE  \E k, m : /\ AtRoot(k, Top) /\ BoundMore(Top, id, m)
                   /\ WalkMeans' /\ Finished' = k /\ Settled
<1>1. /\ phase = "lower" /\ phase \in Walking /\ stack # << >> /\ WalkMeans
      /\ Lowering /\ GraphIn(graph) /\ Top \in DOMAIN graph.nodes /\ ids[Top] = 0
  BY TopUnnumbered
<1>2. PICK top : top = Top
  OBVIOUS
<1>3. PICK m : BoundMore(top, id, m)
  BY <1>1, <1>2, BindMore
<1>4. \A n \in DOMAIN graph.nodes : ~IsLeaf(n) /\ n # Top => Visited(n)' = Visited(n)
  BY <1>1, <1>2, <1>3, IdsMore DEF Visited
<1>5. \A n : n = Top => Visited(n)'
  <2>1. ids'[top] = id /\ id # 0
    BY <1>3, IdsMore
  <2>2. QED
    BY <1>1, <1>2, <2>1 DEF Visited
<1>6. evaluated' \subseteq DOMAIN graph.nodes
  BY <1>1 DEF WalkMeans
<1>7. PICK k : AtRoot(k, Top) /\ WalkMeans' /\ Finished' = k
  BY <1>1, <1>4, <1>5, <1>6, RootReturns
<1>8. Settled
  BY SettledOf
<1>9. QED
  BY <1>2, <1>3, <1>7, <1>8

(* A child of the root, and what its operand held before.                   *)
LEMMA OperandNode ==
  ASSUME RunInv, MeaningInv, phase \in Walking, NEW k, NEW root, AtRoot(k, root)
  PROVE  LET c == Children(root) IN
           /\ c[1] \in DOMAIN graph.nodes /\ c[2] \in DOMAIN graph.nodes
           /\ Meaning(c[1]) = After[k - 1][Recorded(root).operand1]
           /\ Meaning(c[2]) = After[k - 1][Recorded(root).operand2]
           /\ graph.nodes[c[1]].entity = Recorded(root).operand1
           /\ graph.nodes[c[2]].entity = Recorded(root).operand2
<1>1. PICK x, y : x = Children(root)[1] /\ y = Children(root)[2]
  OBVIOUS
<1>2. x \in DOMAIN graph.nodes /\ y \in DOMAIN graph.nodes
  BY <1>1, LeafUnderRoot
<1>3. PICK node, op : node = graph.nodes[root] /\ op = Recorded(root)
  OBVIOUS
<1>4. OperatorMeans(graph, Len(recording), root) /\ node.op = k /\ op = recording[k]
  BY <1>3 DEF AtRoot, Recorded
<1>5. x = node.children[1] /\ y = node.children[2]
  BY <1>1, <1>3 DEF Children
<1>6. /\ MeaningIn(graph, x) = After[k - 1][op.operand1] /\ graph.nodes[x].entity = op.operand1
      /\ MeaningIn(graph, y) = After[k - 1][op.operand2] /\ graph.nodes[y].entity = op.operand2
  BY <1>3, <1>4, <1>5 DEF OperatorMeans
<1>7. QED
  BY <1>1, <1>2, <1>3, <1>6 DEF Meaning

LEMMA MeantLowerAssignment ==
  ASSUME RunInv, RunInv', MeaningInv, LowerAssignment, UNCHANGED <<recordingVars, hold>>
  PROVE  MeaningInv'
<1>1. PICK op, top, x : op = Recorded(Top) /\ top = Top /\ x = Children(Top)[2]
  OBVIOUS
<1>2. /\ Ready /\ ~IsLeaf(Top) /\ op.type = "Assignment"
      /\ Bind(Top, ids[x]) /\ Return
      /\ UNCHANGED <<phase, temps, recording, store, next, graph, code, inputs, evaluated>>
  BY <1>1 DEF LowerAssignment
<1>3. /\ phase = "lower" /\ phase \in Walking /\ stack # << >> /\ LoweringMeans
      /\ Lowering /\ GraphIn(graph) /\ NextId \in Nat \ {0} /\ ToLower(Top) = {}
  BY <1>2, TopUnnumbered, LowerFacts
<1>4. PICK id \in Nat \ {0} : id = ids[x]
  <2>1. ~Folds(Top)
    BY <1>1, <1>2 DEF Folds, Arithmetic
  <2>2. ids[x] \in 1..(NextId - 1)
    BY <1>1, <1>2, <1>3, <2>1, ChildLowered
  <2>3. QED
    BY <1>3, <2>2
<1>5. PICK k, m : /\ AtRoot(k, top) /\ BoundMore(top, id, m)
                  /\ WalkMeans' /\ Finished' = k /\ Settled
  BY <1>1, <1>2, <1>4, RootNumbered
<1>6. Meaning(x) = Meaning(top) /\ x \in DOMAIN graph.nodes
  <2>1. Meaning(x) = After[k - 1][op.operand2] /\ x \in DOMAIN graph.nodes
    BY <1>1, <1>3, <1>5, OperandNode
  <2>2. Meaning(top) = After[k][Target(op)] /\ After[k][Target(op)] = Written(op, After[k - 1])
    BY <1>1, <1>3, <1>5, RootOperation
  <2>3. QED
    BY <1>2, <2>1, <2>2 DEF Written
<1>7. \A n \in DOMAIN graph.nodes : ids[n] = id => Meaning(n) = Meaning(top)
  BY <1>3, <1>4, <1>6 DEF LoweringMeans
<1>8. \A i \in DOMAIN code' : Follows(i)'
  BY <1>2, <1>3, <1>5, CodeStillMeans
<1>9. LoweringMeans'
  BY <1>2, <1>3, <1>5, <1>7, <1>8, RootBound
<1>10. QED
  BY <1>2, <1>3, <1>5, <1>9, MeantStep

(* Nothing writes a scalar: what is folded into an instruction is a leaf.   *)
LEMMA FoldedIsLeaf ==
  ASSUME RunInv, MeaningInv, phase \in Walking, NEW y \in DOMAIN graph.nodes,
         IsScalar(graph.nodes[y].entity)
  PROVE  IsLeaf(y)
<1> SUFFICES ASSUME ~IsLeaf(y) PROVE FALSE
  OBVIOUS
<1>1. GraphMeansIn(graph, Len(recording)) /\ LambdaInv /\ DOMAIN recording = 1..Len(recording)
  BY WalkFacts
<1>2. PICK node : node = graph.nodes[y]
  OBVIOUS
<1>3. OperatorMeans(graph, Len(recording), y)
  BY <1>1 DEF GraphMeansIn, NodesMean, IsLeaf
<1>4. node.op \in DOMAIN recording /\ node.entity = Target(recording[node.op])
  BY <1>1, <1>2, <1>3 DEF OperatorMeans
<1>5. ~ScalarIn(temps, node.entity)
  BY <1>1, <1>4 DEF LambdaInv, ResultsFirst, OperationFits
<1>6. QED
  BY <1>2, <1>5 DEF IsScalar, ScalarIn

LEMMA EmittedFacts ==
  ASSUME NEW n, Recorded(n).type \in Arithmetic, NEW x, x = Children(n)[1],
         NEW y, y = Children(n)[2]
  PROVE  LET i == Emitted(n) IN
           /\ i.res = NextId /\ i.args[1] = ids[x]
           /\ i.op \in {"ADD_CC", "HMULT", "ADD_CS", "MULT_CS"}
           /\ Kind(i.op) = Recorded(n).type
           /\ i.op \in {"ADD_CC", "HMULT"} <=> ~Folds(n)
           /\ ~Folds(n) => i.args[2] = ids[y]
           /\ Folds(n) => i.fparam = graph.nodes[y].entity
<1>1. PICK i : i = Emitted(n)
  OBVIOUS
<1>2. /\ i.op = OpCode(Recorded(n).type, Folds(n)) /\ i.res = NextId
      /\ i.args = <<ids[x], IF Folds(n) THEN Unused ELSE ids[y], Unused, Unused>>
      /\ i.fparam = IF Folds(n) THEN graph.nodes[y].entity ELSE Nothing
  BY <1>1 DEF Emitted
<1>3. i.args[1] = ids[x] /\ (~Folds(n) => i.args[2] = ids[y])
  BY <1>2
<1>4. PICK f \in BOOLEAN, t \in {"Add", "Multiply"} : f = Folds(n) /\ t = Recorded(n).type
  BY DEF Arithmetic, Folds
<1>5. i.op = IF t = "Add" THEN IF f THEN "ADD_CS" ELSE "ADD_CC"
             ELSE IF f THEN "MULT_CS" ELSE "HMULT"
  BY <1>2, <1>4 DEF OpCode
<1>6. QED
  BY <1>1, <1>2, <1>3, <1>4, <1>5 DEF Kind

LEMMA MeantLowerArithmetic ==
  ASSUME RunInv, RunInv', MeaningInv, LowerArithmetic, UNCHANGED <<recordingVars, hold>>
  PROVE  MeaningInv'
<1>1. PICK op, top, x, y, N, inst :
        /\ op = Recorded(Top) /\ top = Top /\ x = Children(Top)[1] /\ y = Children(Top)[2]
        /\ N = NextId /\ inst = Emitted(Top)
  OBVIOUS
<1>2. /\ Ready /\ ~IsLeaf(Top) /\ op.type \in Arithmetic
      /\ code' = Append(code, inst) /\ Bind(Top, N) /\ Return
      /\ UNCHANGED <<phase, temps, recording, store, next, graph, inputs, evaluated>>
  BY <1>1 DEF LowerArithmetic
<1>3. /\ phase = "lower" /\ phase \in Walking /\ stack # << >> /\ LoweringMeans
      /\ Lowering /\ Numbered /\ GraphIn(graph) /\ N \in Nat \ {0} /\ ToLower(Top) = {}
      /\ \A n \in DOMAIN graph.nodes : ids[n] \in 0..(N - 1)
  BY <1>1, <1>2, TopUnnumbered, LowerFacts
<1>4. PICK k, m : /\ AtRoot(k, top) /\ BoundMore(top, N, m)
                  /\ WalkMeans' /\ Finished' = k /\ Settled
  BY <1>1, <1>2, <1>3, RootNumbered
<1>5. \A n \in DOMAIN graph.nodes : ids[n] = N => Meaning(n) = Meaning(top)
  BY <1>3
<1>6. /\ x \in DOMAIN graph.nodes /\ y \in DOMAIN graph.nodes
      /\ Meaning(x) = After[k - 1][op.operand1] /\ Meaning(y) = After[k - 1][op.operand2]
  BY <1>1, <1>3, <1>4, OperandNode
<1>7. Meaning(top) = <<op.type, Meaning(x), Meaning(y)>>
  <2>1. Meaning(top) = After[k][Target(op)] /\ After[k][Target(op)] = Written(op, After[k - 1])
    BY <1>1, <1>3, <1>4, RootOperation
  <2>2. op.type # "Assignment"
    BY <1>2 DEF Arithmetic
  <2>3. QED
    BY <1>6, <2>1, <2>2 DEF Written
<1>8. /\ inst.res = N /\ inst.args[1] = ids[x]
      /\ inst.op \in {"ADD_CC", "HMULT", "ADD_CS", "MULT_CS"} /\ Kind(inst.op) = op.type
      /\ inst.op \in {"ADD_CC", "HMULT"} <=> ~Folds(top)
      /\ ~Folds(top) => inst.args[2] = ids[y]
      /\ Folds(top) => inst.fparam = graph.nodes[y].entity
  BY <1>1, <1>2, EmittedFacts
<1>9. ids[x] # 0 /\ (~Folds(top) => ids[y] # 0) /\ (Folds(top) => IsLeaf(y))
  <2>1. ids[x] # 0
    <3>1. ids[x] \in 1..(NextId - 1)
      BY <1>1, <1>2, <1>3, ChildLowered
    <3>2. QED
      BY <1>1, <1>3, <3>1
  <2>2. ~Folds(top) => ids[y] # 0
    <3>1. ~Folds(top) => ids[y] \in 1..(NextId - 1)
      BY <1>1, <1>2, <1>3, ChildLowered
    <3>2. QED
      BY <1>1, <1>3, <3>1
  <2>3. Folds(top) => IsLeaf(y)
    <3>1. Folds(top) => IsScalar(graph.nodes[y].entity)
      BY <1>1 DEF Folds
    <3>2. QED
      BY <1>3, <1>6, <3>1, FoldedIsLeaf
  <2>4. QED
    BY <2>1, <2>2, <2>3
<1>10. PICK c : c = Len(code)
  OBVIOUS
<1>11. /\ c \in Nat /\ DOMAIN code = 1..c /\ DOMAIN code' = 1..(c + 1) /\ code'[c + 1] = inst
       /\ \A i \in 1..c : code'[i] = code[i]
  <2>1. PICK o, p : o = code /\ p = Append(o, inst)
    OBVIOUS
  <2>2. o \in Seq(Range(o)) /\ code' = p
    BY <1>2, <1>3, <2>1 DEF Numbered
  <2>3. /\ Len(o) \in Nat /\ DOMAIN o = 1..Len(o) /\ DOMAIN p = 1..(Len(o) + 1)
        /\ p[Len(o) + 1] = inst /\ \A i \in 1..Len(o) : p[i] = o[i]
    BY <2>2, SequenceGrows, <2>1
  <2>4. QED
    BY <1>10, <2>1, <2>2, <2>3
<1>12. Follows(c + 1)'
  <2>1. /\ ids'[top] = N /\ ids'[x] = ids[x] /\ (~Folds(top) => ids'[y] = ids[y])
    BY <1>4, <1>6, <1>9, IdsMore
  <2>2. /\ Meaning(top)' = Meaning(top) /\ Meaning(x)' = Meaning(x) /\ Meaning(y)' = Meaning(y)
        /\ IsLeaf(y)' = IsLeaf(y) /\ graph' = graph
    BY <1>4, SettledMeans DEF Settled
  <2>3. top \in DOMAIN graph.nodes
    BY <1>4 DEF AtRoot
  <2>4. Meaning(top) = <<Kind(inst.op), Meaning(x), Meaning(y)>>
    BY <1>7, <1>8
  <2>5. /\ ids'[top] = code'[c + 1].res /\ ids'[x] = code'[c + 1].args[1]
        /\ ids'[top] # 0 /\ ids'[x] # 0
        /\ code'[c + 1].op \in {"ADD_CC", "HMULT", "ADD_CS", "MULT_CS"}
        /\ Kind(code'[c + 1].op) = Kind(inst.op)
    BY <1>3, <1>8, <1>9, <1>11, <2>1
  <2>6. IF code'[c + 1].op \in {"ADD_CC", "HMULT"}
          THEN ids'[y] = code'[c + 1].args[2] /\ ids'[y] # 0
          ELSE IsLeaf(y)' /\ graph'.nodes[y].entity = code'[c + 1].fparam
    BY <1>8, <1>9, <1>11, <2>1, <2>2
  <2>7. Meaning(top)' = <<Kind(code'[c + 1].op), Meaning(x)', Meaning(y)'>>
    BY <2>2, <2>4, <2>5
  <2>8. QED
    BY <1>6, <2>2, <2>3, <2>5, <2>6, <2>7 DEF Follows, Kind
<1>13. \A i \in DOMAIN code' : Follows(i)'
  <2> SUFFICES ASSUME NEW i \in 1..(c + 1) PROVE Follows(i)'
    BY <1>11
  <2>1. CASE i = c + 1
    BY <1>12, <2>1
  <2>2. CASE i # c + 1
    <3>1. i \in DOMAIN code /\ code'[i] = code[i]
      BY <1>11, <2>2
    <3>2. QED
      BY <1>3, <1>4, <3>1, CodeStillMeans
  <2>3. QED
    BY <2>1, <2>2
<1>14. LoweringMeans'
  BY <1>2, <1>3, <1>4, <1>5, <1>13, RootBound
<1>15. QED
  BY <1>2, <1>3, <1>4, <1>14, MeantStep

-----------------------------------------------------------------------------
(* Providing the inputs.                                                    *)

(* What a leaf reads is one of the entities the lambda found encrypted.     *)
LEMMA LeafIsSource ==
  ASSUME RunInv, MeaningInv, phase \in Walking, AllEncrypted,
         NEW n \in DOMAIN graph.nodes, IsLeaf(n)
  PROVE  /\ graph.nodes[n].entity \in Entities /\ graph.nodes[n].entity \in Sources
         /\ Meaning(n) = <<graph.nodes[n].entity>>
<1>1. PICK e : e = graph.nodes[n].entity
  OBVIOUS
<1>2. /\ ~poisoned /\ LambdaInv /\ GraphIn(graph) /\ GraphMeansIn(graph, Len(recording))
  BY WalkFacts
<1>3. LeafMeans(e)
  BY <1>1, <1>2 DEF GraphMeansIn, NodesMean, IsLeaf
<1>4. e \in Entities
  BY <1>1, <1>2 DEF GraphIn, NodeIn
<1>5. map[e] = e /\ ~ResultIn(temps, e)
  BY <1>3 DEF LeafMeans
<1>6. CASE e \in DOMAIN temps
  BY <1>1, <1>4, <1>5, <1>6 DEF ResultIn, Sources, IsLeaf, Meaning, MeaningIn
<1>7. CASE e \notin DOMAIN temps
  <2>1. map[e] # Nothing
    BY <1>4, <1>5, EntityFacts
  <2>2. e \in live \cup 1..Len(temps) /\ DOMAIN temps = 1..Len(temps)
    BY <1>4, <2>1, UsableNames DEF RunInv, Registered
  <2>3. live \subseteq Callers /\ moved \cap Callers = {}
    BY <1>2 DEF LambdaInv, SourcesIntact, Walking, Underway, Translating
  <2>4. e \in Sources
    BY <1>7, <2>2, <2>3 DEF Sources, AllEncrypted
  <2>5. QED
    BY <1>1, <1>4, <2>4 DEF IsLeaf, Meaning, MeaningIn
<1>8. QED
  BY <1>6, <1>7

LEMMA LeastIs ==
  ASSUME NEW S, S \subseteq Nat, NEW b \in S, \A y \in S : b <= y
  PROVE  Min(S) = b
<1>1. \A x \in S : (\A y \in S : x <= y) => x = b
  OBVIOUS
<1>2. QED
  BY <1>1 DEF Min

(* The first entity bound to an id provides its buffer when it is encrypted.*)
LEMMA FirstProvides ==
  ASSUME Lowering, NEW id, NEW e, FirstBound(id, e), IsEncrypted(e)
  PROVE  Provider(id) = e
<1>1. PICK b \in DOMAIN bindings :
        /\ bindings[b].id = id /\ bindings[b].entity = e
        /\ \A a \in 1..(b - 1) : bindings[a].id # id
  BY DEF FirstBound
<1>2. DOMAIN bindings = 1..Len(bindings) /\ Len(bindings) \in Nat
  BY <1>1, BindingFacts
<1>3. b \in Providers(id) /\ Providers(id) \subseteq Nat
  BY <1>1, <1>2 DEF Providers
<1>4. \A y \in Providers(id) : b <= y
  <2> SUFFICES ASSUME NEW y \in DOMAIN bindings, bindings[y].id = id
               PROVE  b <= y
    BY DEF Providers
  <2>1. y \in 1..Len(bindings) /\ b \in 1..Len(bindings)
    BY <1>2
  <2>2. y \notin 1..(b - 1)
    BY <1>1
  <2>3. QED
    BY <1>2, <2>1, <2>2
<1>5. Min(Providers(id)) = b
  BY <1>3, <1>4, LeastIs
<1>6. QED
  BY <1>1, <1>5 DEF Provider

LEMMA MeantProvision ==
  ASSUME RunInv, RunInv', MeaningInv, Provision
  PROVE  MeaningInv'
<1>1. /\ phase = "lowered" /\ phase' \in {"execute", "throw"} /\ phase \in Walking
      /\ UNCHANGED <<temps, recording, store, recordingVars, graphVars>>
      /\ UNCHANGED <<cipher, blocks, next, graph, stack, ids, code, inputs, bindings, evaluated>>
      /\ phase' = "execute" => hold' = [id \in InputIds |-> cipher[Provider(id)]]
  BY DEF Provision, store, graphVars, lowering, Walking
<1>2. Settled
  BY <1>1, SettledOf
<1>3. LambdaInv'
  BY <1>1, LambdaKept DEF MeaningInv, Translating
<1>4. Unstarted'
  <2>1. Unstarted
    BY DEF MeaningInv
  <2>2. QED
    BY <1>1, <1>2, <2>1 DEF Unstarted, Settled
<1>5. CASE phase' = "throw"
  BY <1>3, <1>4, <1>5 DEF MeaningInv, Translating
<1>6. CASE phase' = "execute"
  <2>1. phase' \in Walking /\ Lowering /\ LoweringMeans /\ WalkMeans /\ GraphIn(graph)
    BY <1>1, <1>6 DEF Walking, MeaningInv, RunInv, Staged, Translating
  <2>2. GraphMeans'
    BY <1>1, <1>2, <2>1, GraphStands
  <2>3. Finished' = Finished
    BY <1>1 DEF Finished
  <2>4. LoweringMeans'
    BY <1>1, <1>2, <2>1, <2>3, LoweringStands
  <2>5. WalkMeans'
    <3>1. \A n : IsLeaf(n)' = IsLeaf(n) /\ Visited(n)' = Visited(n)
      BY <1>1, <1>6 DEF IsLeaf, Visited
    <3>2. stack = << >> /\ next = Len(graph.roots) + 1
      BY <1>1, <2>1 DEF WalkMeans
    <3>3. QED
      BY <1>1, <1>6, <2>1, <2>3, <3>1, <3>2 DEF WalkMeans
  <2>6. HeldMeans'
    <3>1. ASSUME AllEncrypted, NEW id \in InputIds, NEW n \in DOMAIN graph.nodes, ids[n] = id
          PROVE  hold'[id] \in DOMAIN blocks /\ blocks[hold'[id]].holds = Meaning(n)
      <4>1. PICK l \in DOMAIN graph.nodes :
              IsLeaf(l) /\ ids[l] = id /\ FirstBound(id, graph.nodes[l].entity)
        BY <2>1, <3>1 DEF LoweringMeans
      <4>2. PICK e : e = graph.nodes[l].entity
        OBVIOUS
      <4>3. e \in Entities /\ e \in Sources /\ Meaning(l) = <<e>>
        BY <1>1, <3>1, <4>1, <4>2, LeafIsSource
      <4>4. Original(e)
        BY <1>1, <4>3 DEF MeaningInv, LambdaInv, SourcesIntact, Underway, Translating
      <4>5. Provider(id) = e
        BY <2>1, <4>1, <4>2, <4>4, FirstProvides DEF Original
      <4>6. hold'[id] = cipher[e]
        BY <1>1, <1>6, <3>1, <4>5
      <4>7. id # 0
        BY <2>1, <3>1, NumbersFacts DEF Lowering
      <4>8. Meaning(n) = Meaning(l)
        BY <2>1, <3>1, <4>1, <4>7 DEF LoweringMeans
      <4>9. QED
        BY <4>3, <4>4, <4>6, <4>8 DEF Original
    <3>2. InputIds' = InputIds
      BY <1>1 DEF InputIds
    <3>3. AllEncrypted' = AllEncrypted /\ \A n : Meaning(n)' = Meaning(n)
      BY <1>2, SettledMeans
    <3>4. QED
      BY <1>1, <3>1, <3>2, <3>3 DEF HeldMeans
  <2>7. QED
    BY <1>3, <1>4, <1>6, <2>2, <2>4, <2>5, <2>6 DEF MeaningInv
<1>7. QED
  BY <1>1, <1>5, <1>6

LEMMA MeantExecutorFails ==
  ASSUME RunInv, RunInv', MeaningInv, ExecutorFails
  PROVE  MeaningInv'
<1>1. /\ phase = "execute" /\ phase' = "throw"
      /\ UNCHANGED <<temps, recording, store, recordingVars>>
      /\ UNCHANGED <<start, next, evaluated>>
  BY DEF ExecutorFails, graphVars, recordingVars
<1>2. LambdaInv'
  BY <1>1, LambdaKept DEF MeaningInv, Translating
<1>3. Unstarted'
  BY <1>1 DEF MeaningInv, Unstarted
<1>4. QED
  BY <1>1, <1>2, <1>3 DEF MeaningInv, Translating

-----------------------------------------------------------------------------
(* The value of each id of the lowered program.                             *)

(* What an instruction computes, from the values v of the ids.              *)
Computes(i, v) ==
  LET x == v[i.args[1]]
  IN  CASE i.op = "ADD_CC"  -> <<"Add", x, v[i.args[2]]>>
        [] i.op = "HMULT"   -> <<"Multiply", x, v[i.args[2]]>>
        [] i.op = "ADD_CS"  -> <<"Add", x, <<i.fparam>>>>
        [] i.op = "MULT_CS" -> <<"Multiply", x, <<i.fparam>>>>

Computing(id) == CHOOSE i \in DOMAIN code : code[i].res = id

Evaluates(s, v) ==
  v = [id \in 1..(NextId - 1) |->
         IF id \in DOMAIN s THEN s[id] ELSE Computes(code[Computing(id)], v)]

LEMMA ValueIsChosen ==
  ASSUME NEW s
  PROVE  ValueOf(s) = CHOOSE v : Evaluates(s, v)
BY DEF ValueOf, Evaluates, Computes, Computing

(* The value each id should have.                                           *)
Meant(id) == Meaning(CHOOSE n \in DOMAIN graph.nodes : ids[n] = id)

LEMMA IdMeans ==
  ASSUME LoweringMeans, NEW n \in DOMAIN graph.nodes, ids[n] # 0
  PROVE  Meant(ids[n]) = Meaning(n)
<1>1. PICK id : id = ids[n]
  OBVIOUS
<1>2. PICK m \in DOMAIN graph.nodes : m = (CHOOSE k \in DOMAIN graph.nodes : ids[k] = id)
                                      /\ ids[m] = id
  BY <1>1
<1>3. Meaning(m) = Meaning(n)
  BY <1>1, <1>2 DEF LoweringMeans
<1>4. QED
  BY <1>1, <1>2, <1>3 DEF Meant

(* Of each result it is what its instruction computes.                      *)
LEMMA CodeComputes ==
  ASSUME LoweringMeans, Lowering, NEW i \in DOMAIN code
  PROVE  /\ Computing(code[i].res) = i
         /\ code[i].args[1] # 0
         /\ code[i].op \in {"ADD_CC", "HMULT"} => code[i].args[2] # 0
         /\ code[i].op \in {"ADD_CC", "HMULT", "ADD_CS", "MULT_CS"}
         /\ \A v : /\ v[code[i].args[1]] = Meant(code[i].args[1])
                   /\ code[i].op \in {"ADD_CC", "HMULT"} =>
                        v[code[i].args[2]] = Meant(code[i].args[2])
                   => Computes(code[i], v) = Meant(code[i].res)
<1>1. PICK n \in DOMAIN graph.nodes, x \in DOMAIN graph.nodes, y \in DOMAIN graph.nodes :
        /\ ids[n] = code[i].res /\ ids[x] = code[i].args[1] /\ ids[n] # 0 /\ ids[x] # 0
        /\ code[i].op \in {"ADD_CC", "HMULT", "ADD_CS", "MULT_CS"}
        /\ IF code[i].op \in {"ADD_CC", "HMULT"} THEN ids[y] = code[i].args[2] /\ ids[y] # 0
           ELSE IsLeaf(y) /\ graph.nodes[y].entity = code[i].fparam
        /\ Meaning(n) = <<Kind(code[i].op), Meaning(x), Meaning(y)>>
  BY DEF LoweringMeans, Follows
<1>2. Computing(code[i].res) = i
  <2>1. \A j \in DOMAIN code : code[j].res = code[i].res => j = i
    BY DEF Lowering, Numbered
  <2>2. QED
    BY <2>1 DEF Computing
<1>3. /\ Meant(code[i].res) = Meaning(n) /\ Meant(code[i].args[1]) = Meaning(x)
      /\ code[i].op \in {"ADD_CC", "HMULT"} => Meant(code[i].args[2]) = Meaning(y)
  BY <1>1, IdMeans
<1>4. code[i].op \notin {"ADD_CC", "HMULT"} => Meaning(y) = <<code[i].fparam>>
  BY <1>1 DEF IsLeaf, Meaning, MeaningIn
<1>5. ASSUME NEW v, v[code[i].args[1]] = Meant(code[i].args[1]),
             code[i].op \in {"ADD_CC", "HMULT"} => v[code[i].args[2]] = Meant(code[i].args[2])
      PROVE  Computes(code[i], v) = Meant(code[i].res)
  <2>1. CASE code[i].op = "ADD_CC"
    BY <1>1, <1>3, <1>5, <2>1 DEF Computes, Kind
  <2>2. CASE code[i].op = "HMULT"
    BY <1>1, <1>3, <1>5, <2>2 DEF Computes, Kind
  <2>3. CASE code[i].op = "ADD_CS"
    BY <1>1, <1>3, <1>4, <1>5, <2>3 DEF Computes, Kind
  <2>4. CASE code[i].op = "MULT_CS"
    BY <1>1, <1>3, <1>4, <1>5, <2>4 DEF Computes, Kind
  <2>5. QED
    BY <1>1, <2>1, <2>2, <2>3, <2>4
<1>6. QED
  BY <1>1, <1>2, <1>5

(* An id is an input, or the result of one instruction over earlier ids.    *)
LEMMA IdIs ==
  ASSUME Lowering, NEW id \in 1..(NextId - 1), id \notin InputIds
  PROVE  \E i \in DOMAIN code : id = code[i].res
<1>1. /\ InputIds \cup Results(Len(code)) = 1..(NextId - 1) /\ DOMAIN code = 1..Len(code)
  BY NumbersFacts DEF Lowering, Numbered
<1>2. QED
  BY <1>1 DEF Results

(* So there is such a function.                                             *)
LEMMA MeantEvaluates ==
  ASSUME LoweringMeans, Lowering, NEW s, DOMAIN s = InputIds, \A id \in InputIds : s[id] = Meant(id)
  PROVE  Evaluates(s, [id \in 1..(NextId - 1) |-> Meant(id)])
<1> DEFINE v == [id \in 1..(NextId - 1) |-> Meant(id)]
<1>1. \A id \in 1..(NextId - 1) : v[id] = Meant(id)
  OBVIOUS
<1>2. v = [id \in 1..(NextId - 1) |-> v[id]]
  OBVIOUS
<1> HIDE DEF v
<1>3. ASSUME NEW id \in 1..(NextId - 1), id \notin InputIds
      PROVE  Computes(code[Computing(id)], v) = Meant(id)
  <2>1. PICK i \in DOMAIN code : id = code[i].res
    BY <1>3, IdIs
  <2>2. /\ Computing(id) = i /\ code[i].args[1] # 0
        /\ code[i].op \in {"ADD_CC", "HMULT"} => code[i].args[2] # 0
    BY <2>1, CodeComputes
  <2>3. \A j \in 1..4 : code[i].args[j] # 0 => code[i].args[j] \in 1..(NextId - 1)
    <3>1. /\ \A j \in 1..4 : code[i].args[j] \in {Unused} \cup InputIds \cup Results(i - 1)
          /\ DOMAIN code = 1..Len(code) /\ Len(code) \in Nat
          /\ InputIds \cup Results(Len(code)) = 1..(NextId - 1)
      BY NumbersFacts DEF Lowering, Numbered
    <3>2. Results(i - 1) \subseteq Results(Len(code))
      <4>1. 1..(i - 1) \subseteq 1..Len(code)
        BY <3>1
      <4>2. QED
        BY <4>1 DEF Results
    <3>3. QED
      BY <3>1, <3>2 DEF Unused
  <2>4. v[code[i].args[1]] = Meant(code[i].args[1])
    BY <1>1, <2>2, <2>3
  <2>5. code[i].op \in {"ADD_CC", "HMULT"} => v[code[i].args[2]] = Meant(code[i].args[2])
    BY <1>1, <2>2, <2>3
  <2>6. QED
    BY <2>1, <2>2, <2>4, <2>5, CodeComputes
<1>4. \A id \in 1..(NextId - 1) :
        v[id] = IF id \in DOMAIN s THEN s[id] ELSE Computes(code[Computing(id)], v)
  BY <1>1, <1>3
<1>5. Evaluates(s, v)
  BY <1>2, <1>4, Zenon DEF Evaluates
<1>6. QED
  BY <1>5 DEF v

(* And only one.                                                            *)
LEMMA EvaluatesMeant ==
  ASSUME LoweringMeans, Lowering, NEW s, DOMAIN s = InputIds,
         \A id \in InputIds : s[id] = Meant(id), NEW v, Evaluates(s, v)
  PROVE  \A id \in 1..(NextId - 1) : v[id] = Meant(id)
<1>1. \A id \in 1..(NextId - 1) :
        v[id] = IF id \in DOMAIN s THEN s[id] ELSE Computes(code[Computing(id)], v)
  BY DEF Evaluates
<1>2. /\ DOMAIN code = 1..Len(code) /\ Len(code) \in Nat
      /\ InputIds \subseteq 1..(NextId - 1) /\ Results(Len(code)) \subseteq 1..(NextId - 1)
      /\ InputIds \cap Results(Len(code)) = {}
      /\ \A i \in DOMAIN code : \A j \in 1..4 :
           code[i].args[j] \in {Unused} \cup InputIds \cup Results(i - 1)
  BY NumbersFacts DEF Lowering, Numbered
<1>3. \A id \in InputIds : v[id] = Meant(id)
  BY <1>1, <1>2
<1> DEFINE S == {k \in Nat : \A i \in 1..k :
                  i \in DOMAIN code => v[code[i].res] = Meant(code[i].res)}
<1>4. 0 \in S
  OBVIOUS
<1>5. ASSUME NEW k \in Nat, k \in S
      PROVE  k + 1 \in S
  <2>1. ASSUME k + 1 \in DOMAIN code
        PROVE  v[code[k + 1].res] = Meant(code[k + 1].res)
    <3>1. PICK i \in DOMAIN code : i = k + 1
      BY <2>1
    <3>2. \A j \in 1..4 : code[i].args[j] # 0 => v[code[i].args[j]] = Meant(code[i].args[j])
      <4> SUFFICES ASSUME NEW j \in 1..4, code[i].args[j] # 0
                   PROVE  v[code[i].args[j]] = Meant(code[i].args[j])
        OBVIOUS
      <4>1. CASE code[i].args[j] \in InputIds
        BY <1>3, <4>1
      <4>2. CASE code[i].args[j] \in Results(k)
        <5>1. PICK l \in 1..k : code[i].args[j] = code[l].res
          BY <4>2 DEF Results
        <5>2. l \in DOMAIN code
          BY <1>2, <3>1
        <5>3. QED
          BY <1>5, <5>1, <5>2
      <4>3. QED
        BY <1>2, <3>1, <4>1, <4>2 DEF Unused
    <3>3. code[i].res \in Results(Len(code))
      BY <1>2 DEF Results
    <3>4. v[code[i].res] = Computes(code[Computing(code[i].res)], v)
      BY <1>1, <1>2, <3>3
    <3>5. QED
      BY <3>1, <3>2, <3>4, CodeComputes
  <2>2. \A i \in 1..(k + 1) : i \in 1..k \/ i = k + 1
    OBVIOUS
  <2>3. QED
    BY <1>5, <2>1, <2>2
<1>6. Nat \subseteq S
  <2> HIDE DEF S
  <2>1. \A m \in Nat : m \in S => m + 1 \in S
    BY <1>5
  <2>2. QED
    BY <1>4, <2>1, InductionOnSet
<1>7. \A i \in DOMAIN code : v[code[i].res] = Meant(code[i].res)
  <2>1. \A i \in DOMAIN code : i \in Nat /\ i \in 1..i
    BY <1>2
  <2>2. QED
    BY <1>6, <2>1
<1>8. QED
  BY <1>3, <1>7, IdIs

(* The value of every numbered node is what it means.                       *)
LEMMA ValueMeans ==
  ASSUME LoweringMeans, Lowering, NEW s, DOMAIN s = InputIds,
         \A id \in InputIds : \A n \in DOMAIN graph.nodes : ids[n] = id => s[id] = Meaning(n),
         NEW n \in DOMAIN graph.nodes, ids[n] # 0
  PROVE  ValueOf(s)[ids[n]] = Meaning(n)
<1>1. \A id \in InputIds : s[id] = Meant(id)
  <2> TAKE id \in InputIds
  <2>1. PICK l \in DOMAIN graph.nodes : ids[l] = id
    BY DEF LoweringMeans
  <2>2. id # 0
    BY NumbersFacts DEF Lowering
  <2>3. QED
    BY <2>1, <2>2, IdMeans
<1>2. \E v : Evaluates(s, v)
  BY <1>1, MeantEvaluates
<1>3. PICK v : v = ValueOf(s)
  OBVIOUS
<1>4. Evaluates(s, v)
  BY <1>2, <1>3, ValueIsChosen
<1>5. \A id \in 1..(NextId - 1) : v[id] = Meant(id)
  BY <1>1, <1>4, EvaluatesMeant
<1>6. ids[n] \in 1..(NextId - 1)
  <2>1. ids[n] \in 0..(NextId - 1) /\ NextId \in Nat
    BY NumbersFacts DEF Lowering
  <2>2. QED
    BY <2>1
<1>7. QED
  BY <1>3, <1>5, <1>6, IdMeans

-----------------------------------------------------------------------------
(* What the lowered program computes, and what has been evaluated.          *)

(* The last id bound to an entity holds what the operations walked so far   *)
(* leave in it.                                                            *)
LEMMA LatestMeans ==
  ASSUME LoweringMeans, Lowering, NEW e \in Bound
  PROVE  \E n \in DOMAIN graph.nodes :
           ids[n] = Latest(e) /\ ids[n] # 0 /\ Meaning(n) = After[Finished][e]
<1> DEFINE S == {k \in DOMAIN bindings : bindings[k].entity = e}
<1>1. PICK k \in DOMAIN bindings : bindings[k].entity = e
  BY DEF Bound
<1>2. DOMAIN bindings = 1..Len(bindings) /\ Len(bindings) \in Nat
  BY <1>1, BindingFacts
<1>3. S # {} /\ S \subseteq 0..Len(bindings)
  BY <1>1, <1>2
<1>4. PICK b : b = Max(S)
  OBVIOUS
<1>5. b \in S /\ \A y \in S : y <= b
  <2> HIDE DEF S
  <2>1. QED
    BY <1>2, <1>3, <1>4, GreatestOf
<1>6. b \in DOMAIN bindings /\ bindings[b].entity = e /\ Latest(e) = bindings[b].id
  BY <1>4, <1>5 DEF Latest
<1>7. LastBound(b)
  <2>1. \A a \in DOMAIN bindings : a > b => bindings[a].entity # e
    BY <1>2, <1>5, <1>6
  <2>2. QED
    BY <1>6, <2>1 DEF LastBound
<1>8. PICK n \in DOMAIN graph.nodes :
        ids[n] = bindings[b].id /\ Meaning(n) = After[Finished][bindings[b].entity]
  BY <1>6, <1>7 DEF LoweringMeans
<1>9. bindings[b].id # 0
  <2>1. bindings[b].id \in 1..(NextId - 1)
    BY <1>6, BindingFacts
  <2>2. QED
    BY <2>1
<1>10. QED
  BY <1>6, <1>8, <1>9

LEMMA FirstReads ==
  ASSUME Lowering, NEW id, NEW e, FirstBound(id, e)
  PROVE  Reader(id) = e
<1>1. PICK b \in DOMAIN bindings :
        /\ bindings[b].id = id /\ bindings[b].entity = e
        /\ \A a \in 1..(b - 1) : bindings[a].id # id
  BY DEF FirstBound
<1>2. DOMAIN bindings = 1..Len(bindings) /\ Len(bindings) \in Nat
  BY <1>1, BindingFacts
<1> DEFINE S == {k \in DOMAIN bindings : bindings[k].id = id}
<1>3. b \in S /\ S \subseteq Nat
  BY <1>1, <1>2
<1>4. \A y \in S : b <= y
  <2> SUFFICES ASSUME NEW y \in DOMAIN bindings, bindings[y].id = id
               PROVE  b <= y
    OBVIOUS
  <2>1. y \in 1..Len(bindings) /\ b \in 1..Len(bindings)
    BY <1>2
  <2>2. y \notin 1..(b - 1)
    BY <1>1
  <2>3. QED
    BY <1>2, <2>1, <2>2
<1> HIDE DEF S
<1>5. Min(S) = b
  BY <1>3, <1>4, LeastIs
<1>6. QED
  BY <1>1, <1>5 DEF Reader, S

(* The walk over, every operation has been walked.                          *)
LEMMA WalkOver ==
  ASSUME RunInv, MeaningInv, phase \in {"lowered", "execute"}
  PROVE  Finished = Len(recording) /\ LoweringMeans /\ Lowering /\ phase \in Walking
<1>1. phase \in Walking /\ LoweringMeans /\ Lowering
  BY DEF Walking, MeaningInv, RunInv, Staged
<1>2. WalkMeans /\ Len(graph.roots) = Len(recording) /\ Len(recording) \in Nat
  BY <1>1, WalkFacts
<1>3. stack = << >> /\ next = Len(recording) + 1
  BY <1>2 DEF WalkMeans
<1>4. Finished = Len(recording)
  BY <1>2, <1>3 DEF Finished
<1>5. QED
  BY <1>1, <1>4

LEMMA RecordedIsBound ==
  ASSUME RunInv, MeaningInv, phase \in {"lowered", "execute"}
  PROVE  \A k \in DOMAIN recording : Target(recording[k]) \in Bound
<1>1. Finished = Len(recording) /\ LoweringMeans /\ phase \in Walking
  BY WalkOver
<1>2. DOMAIN recording = 1..Len(recording)
  BY <1>1, WalkFacts
<1>3. QED
  BY <1>1, <1>2 DEF LoweringMeans

LEMMA LoweredMeans ==
  ASSUME RunInv, MeaningInv, phase = "lowered"
  PROVE  LoweredMeansRecording
<1>1. Finished = Len(recording) /\ LoweringMeans /\ Lowering
  BY WalkOver
<1>2. PICK s : s = [id \in InputIds |-> <<Reader(id)>>]
  OBVIOUS
<1>3. DOMAIN s = InputIds /\ \A id \in InputIds : s[id] = <<Reader(id)>>
  BY <1>2
<1>4. ASSUME NEW id \in InputIds, NEW n \in DOMAIN graph.nodes, ids[n] = id
      PROVE  s[id] = Meaning(n)
  <2>1. PICK l \in DOMAIN graph.nodes :
          IsLeaf(l) /\ ids[l] = id /\ FirstBound(id, graph.nodes[l].entity)
    BY <1>1 DEF LoweringMeans
  <2>2. Reader(id) = graph.nodes[l].entity
    BY <1>1, <2>1, FirstReads
  <2>3. Meaning(l) = <<graph.nodes[l].entity>>
    BY <2>1 DEF Meaning, MeaningIn, IsLeaf
  <2>4. id # 0
    BY <1>1, NumbersFacts DEF Lowering
  <2>5. Meaning(n) = Meaning(l)
    BY <1>1, <1>4, <2>1, <2>4 DEF LoweringMeans
  <2>6. QED
    BY <1>3, <2>2, <2>3, <2>5
<1>5. PICK value : value = ValueOf(s)
  OBVIOUS
<1>6. ASSUME NEW e \in Bound
      PROVE  value[Latest(e)] = After[Len(recording)][e]
  <2>1. PICK n \in DOMAIN graph.nodes :
          ids[n] = Latest(e) /\ ids[n] # 0 /\ Meaning(n) = After[Finished][e]
    BY <1>1, LatestMeans
  <2>2. value[ids[n]] = Meaning(n)
    BY <1>1, <1>3, <1>4, <1>5, <2>1, ValueMeans
  <2>3. QED
    BY <1>1, <2>1, <2>2
<1>7. QED
  BY <1>2, <1>5, <1>6, RecordedIsBound DEF LoweredMeansRecording

(* What has been executed are the operations of the roots walked.           *)
LEMMA EvaluatedMeans ==
  ASSUME RunInv, MeaningInv, phase = "evaluate"
  PROVE  EvaluatedIsPrefix
<1> DEFINE executed == {graph.nodes[n].op : n \in evaluated} \ {0}
<1>1. phase \in Walking
  BY DEF Walking
<1>2. /\ WalkMeans /\ Len(graph.roots) = Len(recording) /\ Len(recording) \in Nat
      /\ GraphMeansIn(graph, Len(recording)) /\ next \in Int /\ GraphIn(graph)
  BY <1>1, WalkFacts
<1>3. Finished \in Nat /\ Finished <= Len(recording)
  <2>1. next \in Nat \ {0}
    BY DEF RunInv, Staged
  <2>2. next - 1 <= Len(recording) /\ (stack # << >> => next >= 2)
    BY <1>2 DEF WalkMeans
  <2>3. QED
    BY <1>2, <2>1, <2>2 DEF Finished
<1>4. \A n \in DOMAIN graph.nodes :
        graph.nodes[n].op # 0 => (n \in evaluated <=> graph.nodes[n].op <= Finished)
  BY <1>2 DEF WalkMeans, Visited, IsLeaf
<1>5. executed \subseteq 1..Finished
  <2> SUFFICES ASSUME NEW n \in evaluated, graph.nodes[n].op # 0
               PROVE  graph.nodes[n].op \in 1..Finished
    OBVIOUS
  <2>1. n \in DOMAIN graph.nodes
    BY <1>2 DEF WalkMeans
  <2>2. graph.nodes[n].op \in 1..Len(recording)
    BY <1>2, <2>1 DEF GraphMeansIn, NodesMean, OperatorMeans
  <2>3. graph.nodes[n].op <= Finished
    BY <1>4, <2>1
  <2>4. QED
    BY <1>2, <1>3, <2>2, <2>3
<1>6. 1..Finished \subseteq executed
  <2> SUFFICES ASSUME NEW k \in 1..Finished
               PROVE  k \in executed
    OBVIOUS
  <2>1. k \in 1..Len(recording) /\ k # 0 /\ k <= Finished
    BY <1>2, <1>3
  <2>2. PICK n : n = graph.roots[k]
    OBVIOUS
  <2>3. graph.nodes[n].op = k
    BY <1>2, <2>1, <2>2 DEF GraphMeansIn, RootsMean
  <2>4. n \in DOMAIN graph.nodes
    <3>1. graph.roots \in Seq(DOMAIN graph.nodes)
      BY <1>2 DEF GraphIn
    <3>2. QED
      BY <1>2, <2>1, <2>2, <3>1
  <2>5. n \in evaluated
    BY <1>4, <2>1, <2>3, <2>4
  <2>6. QED
    BY <2>1, <2>3, <2>5
<1>7. executed = 1..Finished
  BY <1>5, <1>6
<1>8. Cardinality(1..Finished) = Finished
  BY <1>3, FS_Interval
<1>9. executed = 1..Cardinality(executed)
  BY <1>7, <1>8
<1>10. QED
  BY <1>9 DEF EvaluatedIsPrefix

-----------------------------------------------------------------------------
(* Writing the results back.                                                *)

(* Each surviving buffer has a place of its own after the old ones.         *)
LEMMA FreshApart ==
  ASSUME Lowering, Len(blocks) \in Nat
  PROVE  \A a, b \in Adopted :
           /\ Fresh(a) \in (Len(blocks) + 1)..(Len(blocks) + Cardinality(Adopted))
           /\ Fresh(a) = Fresh(b) => a = b
<1>1. Adopted \subseteq 1..(NextId - 1) /\ Cardinality(Adopted) \in Nat /\ NextId \in Nat
      /\ \A id : Fresh(id) \in 0..(Len(blocks) + Cardinality(Adopted))
  BY AdoptedFacts, NumbersFacts DEF Lowering
<1>2. IsFiniteSet(Adopted)
  <2>1. IsFiniteSet(1..(NextId - 1))
    BY <1>1, FS_Interval
  <2>2. QED
    BY <1>1, <2>1, FS_Subset
<1> DEFINE T(x) == {a \in Adopted : a <= x}
<1>3. \A x : T(x) \subseteq Adopted /\ IsFiniteSet(T(x)) /\ Cardinality(T(x)) \in Nat
  <2> TAKE x
  <2>1. T(x) \in SUBSET Adopted
    OBVIOUS
  <2> HIDE DEF T
  <2>2. QED
    BY <1>2, <2>1, FS_Subset, FS_CardinalityType
<1>4. \A x : Fresh(x) = Len(blocks) + Cardinality(T(x))
  BY DEF Fresh
<1>5. \A a \in Adopted : a \in T(a)
  BY <1>1
<1>6. \A a, b \in Adopted : a < b => T(a) \subseteq T(b) /\ b \notin T(a)
  <2> SUFFICES ASSUME NEW a \in Adopted, NEW b \in Adopted, a < b
               PROVE  T(a) \subseteq T(b) /\ b \notin T(a)
    OBVIOUS
  <2>1. Adopted \subseteq Int
    BY <1>1
  <2>2. \A x \in Adopted : x \in Int /\ (x <= a => x <= b)
    BY <2>1
  <2>3. ~(b <= a)
    BY <2>1
  <2>4. QED
    BY <2>2, <2>3
<1> HIDE DEF T
<1>7. \A a, b \in Adopted : a < b => Cardinality(T(a)) # Cardinality(T(b))
  <2> SUFFICES ASSUME NEW a \in Adopted, NEW b \in Adopted, a < b
               PROVE  Cardinality(T(a)) # Cardinality(T(b))
    OBVIOUS
  <2>1. PICK A, B : A = T(a) /\ B = T(b)
    OBVIOUS
  <2>2. A \in SUBSET B /\ B # A /\ IsFiniteSet(B)
    BY <1>3, <1>5, <1>6, <2>1
  <2>3. Cardinality(B) # Cardinality(A)
    BY <2>2, FS_Subset
  <2>4. QED
    BY <2>1, <2>3
<1>8. \A a, b \in Adopted : Fresh(a) = Fresh(b) => a = b
  <2> SUFFICES ASSUME NEW a \in Adopted, NEW b \in Adopted, Fresh(a) = Fresh(b), a # b
               PROVE  FALSE
    OBVIOUS
  <2>1. Cardinality(T(a)) = Cardinality(T(b))
    BY <1>3, <1>4
  <2>2. a < b \/ b < a
    BY <1>1
  <2>3. QED
    BY <1>7, <2>1, <2>2
<1>9. \A a \in Adopted : Cardinality(T(a)) # 0
  <2> TAKE a \in Adopted
  <2>1. PICK A : A = T(a)
    OBVIOUS
  <2>2. IsFiniteSet(A) /\ A # {}
    BY <1>3, <1>5, <2>1
  <2>3. Cardinality(A) # 0
    BY <2>2, FS_EmptySet
  <2>4. QED
    BY <2>1, <2>3
<1>10. \A a \in Adopted : Fresh(a) \in (Len(blocks) + 1)..(Len(blocks) + Cardinality(Adopted))
  <2> TAKE a \in Adopted
  <2>1. /\ Fresh(a) = Len(blocks) + Cardinality(T(a)) /\ Cardinality(T(a)) \in Nat
        /\ Cardinality(T(a)) # 0 /\ Fresh(a) <= Len(blocks) + Cardinality(Adopted)
    BY <1>1, <1>3, <1>4, <1>9
  <2>2. QED
    BY <1>1, <2>1
<1>11. QED
  BY <1>8, <1>10

(* What the buffer an id is adopted into holds after the write-back.        *)
LEMMA AdoptedHolds ==
  ASSUME RunInv, WriteBack, NEW id \in Adopted \cup InputIds
  PROVE  IF id \in InputIds
           THEN hold[id] \in DOMAIN blocks =>
                  /\ Adopt(id) \in DOMAIN blocks' /\ Adopt(id) # 0
                  /\ blocks'[Adopt(id)] = blocks[hold[id]]
           ELSE /\ Adopt(id) \in DOMAIN blocks' /\ Adopt(id) # 0
                /\ blocks'[Adopt(id)].holds = Values[id]
<1> DEFINE n == Cardinality(Adopted)
           m == Len(blocks)
           f == [k \in 1..n |->
                   LET a == CHOOSE b \in Adopted : Fresh(b) = m + k
                   IN  Block(m + k, "ours", Values[a])]
<1>1. phase = "execute" /\ blocks' = blocks \o f
  BY DEF WriteBack
<1>2. Lowering /\ StoreTyped
  BY <1>1 DEF RunInv, Staged
<1>3. blocks \in Seq(Range(blocks)) /\ m \in Nat /\ DOMAIN blocks = 1..m
  <2>1. blocks \in Seq(Range(blocks))
    BY <1>2 DEF StoreTyped
  <2>2. QED
    BY <2>1
<1>4. n \in Nat
  BY <1>2, <1>3, AdoptedFacts
<1>5. \A a, b \in Adopted : Fresh(a) \in (m + 1)..(m + n) /\ (Fresh(a) = Fresh(b) => a = b)
  BY <1>2, <1>3, FreshApart
<1>6. f = [k \in 1..n |-> f[k]]
  OBVIOUS
<1>7. \A k \in 1..n : f[k].holds = Values[CHOOSE b \in Adopted : Fresh(b) = m + k]
  BY DEF Block
<1> HIDE DEF f, m, n
<1>8. PICK S : S = Range(blocks) \cup {f[k] : k \in 1..n}
  OBVIOUS
<1>9. blocks \in Seq(S) /\ f \in [1..n -> S]
  <2>1. Range(blocks) \subseteq S /\ \A k \in 1..n : f[k] \in S
    BY <1>8
  <2>2. QED
    BY <1>3, <1>6, <2>1, LongerSequence
<1>10. /\ DOMAIN blocks' = 1..(m + n)
       /\ \A k \in 1..m : blocks'[k] = blocks[k]
       /\ \A k \in 1..n : blocks'[m + k] = f[k]
  BY <1>1, <1>4, <1>9, JoinedMany DEF m
<1>11. CASE id \in InputIds
  <2> SUFFICES ASSUME hold[id] \in 1..m
               PROVE  /\ Adopt(id) \in DOMAIN blocks' /\ Adopt(id) # 0
                      /\ blocks'[Adopt(id)] = blocks[hold[id]]
    BY <1>3, <1>11
  <2>1. Adopt(id) = hold[id]
    BY <1>11 DEF Adopt
  <2>2. hold[id] # 0 /\ hold[id] \in 1..(m + n)
    BY <1>3, <1>4
  <2>3. QED
    BY <1>10, <2>1, <2>2
<1>12. CASE id \notin InputIds
  <2>1. Adopt(id) = Fresh(id) /\ id \in Adopted
    BY <1>12 DEF Adopt
  <2>2. PICK k \in 1..n : Fresh(id) = m + k
    <3>1. Fresh(id) \in (m + 1)..(m + n)
      BY <1>5, <2>1
    <3>2. Fresh(id) - m \in 1..n /\ Fresh(id) = m + (Fresh(id) - m)
      BY <1>3, <1>4, <3>1
    <3>3. QED
      BY <3>2
  <2>3. (CHOOSE b \in Adopted : Fresh(b) = m + k) = id
    <3>1. \A b \in Adopted : Fresh(b) = m + k <=> b = id
      BY <1>5, <2>1, <2>2
    <3>2. QED
      BY <2>1, <3>1
  <2>4. f[k].holds = Values[id]
    BY <1>7, <2>3
  <2>5. m + k \in 1..(m + n) /\ m + k # 0
    BY <1>3, <1>4
  <2>6. QED
    BY <1>10, <1>12, <2>1, <2>2, <2>4, <2>5
<1>13. QED
  BY <1>11, <1>12

(* The buffers there were stay where they are.                              *)
LEMMA WrittenBehind ==
  ASSUME RunInv, WriteBack
  PROVE  \A b \in DOMAIN blocks : b \in DOMAIN blocks' /\ blocks'[b] = blocks[b]
<1>1. phase = "execute" /\ \E t, n : blocks' = blocks \o t /\ n = Cardinality(Adopted)
                                     /\ t = [k \in 1..n |-> t[k]]
  <2> DEFINE f == [k \in 1..Cardinality(Adopted) |->
                     LET id == CHOOSE a \in Adopted : Fresh(a) = Len(blocks) + k
                     IN  Block(Len(blocks) + k, "ours", Values[id])]
  <2>1. phase = "execute" /\ blocks' = blocks \o f
    BY DEF WriteBack
  <2>2. f = [k \in 1..Cardinality(Adopted) |-> f[k]]
    OBVIOUS
  <2> HIDE DEF f
  <2>3. QED
    BY <2>1, <2>2
<1>2. PICK t, n : /\ blocks' = blocks \o t /\ n = Cardinality(Adopted)
                  /\ t = [k \in 1..n |-> t[k]]
  BY <1>1
<1>3. Lowering /\ StoreTyped
  BY <1>1 DEF RunInv, Staged
<1>4. blocks \in Seq(Range(blocks)) /\ Len(blocks) \in Nat /\ DOMAIN blocks = 1..Len(blocks)
  <2>1. blocks \in Seq(Range(blocks))
    BY <1>3 DEF StoreTyped
  <2>2. QED
    BY <2>1
<1>5. n \in Nat
  BY <1>2, <1>3, <1>4, AdoptedFacts
<1>6. PICK S : S = Range(blocks) \cup {t[k] : k \in 1..n}
  OBVIOUS
<1>7. blocks \in Seq(S) /\ t \in [1..n -> S]
  <2>1. Range(blocks) \subseteq S /\ \A k \in 1..n : t[k] \in S
    BY <1>6
  <2>2. QED
    BY <1>2, <1>4, <2>1, LongerSequence
<1>8. DOMAIN blocks' = 1..(Len(blocks) + n) /\ \A k \in 1..Len(blocks) : blocks'[k] = blocks[k]
  BY <1>2, <1>5, <1>7, JoinedMany
<1>9. QED
  BY <1>4, <1>5, <1>8

(* The value each numbered node has when the executor succeeds.             *)
LEMMA ExecutedMeans ==
  ASSUME RunInv, MeaningInv, phase = "execute", AllEncrypted,
         NEW n \in DOMAIN graph.nodes, ids[n] # 0
  PROVE  Values[ids[n]] = Meaning(n)
<1>1. PICK s : s = [id \in InputIds |-> blocks[hold[id]].holds]
  OBVIOUS
<1>2. DOMAIN s = InputIds /\ \A id \in InputIds : s[id] = blocks[hold[id]].holds
  BY <1>1
<1>3. LoweringMeans /\ Lowering /\ HeldMeans
  BY WalkOver DEF MeaningInv
<1>4. \A id \in InputIds : \A l \in DOMAIN graph.nodes : ids[l] = id => s[id] = Meaning(l)
  BY <1>2, <1>3 DEF HeldMeans
<1>5. ValueOf(s)[ids[n]] = Meaning(n)
  BY <1>2, <1>3, <1>4, ValueMeans
<1>6. QED
  BY <1>1, <1>5 DEF Values

(* Every caller variable ends up with what computing each statement at once *)
(* would have left in it.                                                  *)
LEMMA MeantWriteBack ==
  ASSUME RunInv, RunInv', MeaningInv, WriteBack
  PROVE  MeaningInv'
<1>1. /\ phase = "execute" /\ phase' = "return"
      /\ cipher' = [e \in Entities |-> IF e \in Bound THEN Adopt(Latest(e)) ELSE cipher[e]]
      /\ UNCHANGED <<temps, recording, plain, recordingVars>>
      /\ UNCHANGED <<start, next, evaluated, live, now, clobbered>>
  BY DEF WriteBack, graphVars, recordingVars, userVars
<1>2. /\ Finished = Len(recording) /\ LoweringMeans /\ Lowering /\ phase \in Walking
      /\ LambdaInv /\ HeldMeans /\ ~poisoned /\ Len(recording) \in Nat
      /\ recording \in Seq(Recordable)
  BY <1>1, WalkOver, WalkFacts DEF MeaningInv
<1>3. LambdaInv'
  BY <1>1, <1>2, LambdaKept DEF Translating
<1>4. Unstarted'
  BY <1>1 DEF MeaningInv, Unstarted
<1>5. ASSUME ~clobbered, AllEncrypted, NEW c \in live \cap Callers
      PROVE  cipher'[c] # 0 /\ blocks'[cipher'[c]].holds = now[c]
  <2>1. c \in Sources /\ c \in Entities /\ now[c] = After[Len(recording)][c]
    BY <1>1, <1>2, <1>5, CallerStands DEF Translating
  <2>2. CASE c \in Bound
    <3>1. PICK n \in DOMAIN graph.nodes :
            ids[n] = Latest(c) /\ ids[n] # 0 /\ Meaning(n) = After[Finished][c]
      BY <1>2, <2>2, LatestMeans
    <3>2. PICK id : id = Latest(c)
      OBVIOUS
    <3>3. cipher'[c] = Adopt(id) /\ id \in Adopted \cup InputIds /\ ids[n] = id
          /\ Meaning(n) = now[c]
      BY <1>1, <1>2, <2>1, <2>2, <3>1, <3>2 DEF Adopted
    <3>4. CASE id \in InputIds
      <4>1. hold[id] \in DOMAIN blocks /\ blocks[hold[id]].holds = Meaning(n)
        BY <1>2, <1>5, <3>3, <3>4 DEF HeldMeans
      <4>2. QED
        BY <3>3, <3>4, <4>1, AdoptedHolds
    <3>5. CASE id \notin InputIds
      <4>1. Adopt(id) # 0 /\ blocks'[Adopt(id)].holds = Values[id]
        BY <3>3, <3>5, AdoptedHolds
      <4>2. Values[id] = Meaning(n)
        BY <1>1, <1>5, <3>1, <3>3, ExecutedMeans
      <4>3. QED
        BY <3>3, <4>1, <4>2
    <3>6. QED
      BY <3>4, <3>5
  <2>3. CASE c \notin Bound
    <3>1. Original(c)
      BY <1>1, <1>2, <2>1 DEF LambdaInv, SourcesIntact, Underway, Translating
    <3>2. ~WrittenBefore(c, Len(recording))
      <4>1. \A k \in 1..Len(recording) : Target(recording[k]) # c
        BY <1>2, <2>3 DEF LoweringMeans
      <4>2. QED
        BY <4>1 DEF WrittenBefore, WrittenIn
    <3>3. After[Len(recording)][c] = <<c>>
      BY <1>2, <2>1, <3>2, UnwrittenAfter
    <3>4. cipher'[c] = cipher[c]
      BY <1>1, <2>1, <2>3
    <3>5. \A b \in DOMAIN blocks : blocks'[b] = blocks[b]
      BY WrittenBehind
    <3>6. QED
      BY <2>1, <3>1, <3>3, <3>4, <3>5 DEF Original, IsEncrypted
  <2>4. QED
    BY <2>2, <2>3
<1>6. ~clobbered' /\ AllEncrypted' => Delivered'
  <2> SUFFICES ASSUME ~clobbered', AllEncrypted', NEW c \in live' \cap Callers
               PROVE  Holds(c)' = now'[c]
    BY DEF Delivered
  <2>1. ~clobbered /\ AllEncrypted /\ c \in live \cap Callers /\ now' = now
    BY <1>1 DEF AllEncrypted
  <2>2. cipher'[c] # 0 /\ blocks'[cipher'[c]].holds = now[c]
    BY <1>5, <2>1
  <2>3. QED
    BY <2>1, <2>2 DEF Holds, IsEncrypted
<1>7. QED
  BY <1>1, <1>3, <1>4, <1>6 DEF MeaningInv, Translating

-----------------------------------------------------------------------------
(* Every step.                                                              *)

LEMMA MeantStill ==
  ASSUME RunInv, MeaningInv, UNCHANGED sessionVars
  PROVE  MeaningInv'
<1>1. /\ UNCHANGED <<phase, temps, recording, store, recordingVars, graphVars, hold>>
      /\ UNCHANGED <<next, graph, stack, ids, code, inputs, bindings, evaluated>>
      /\ UNCHANGED <<start, map, poisoned, live, moved, now, clobbered>>
      /\ UNCHANGED <<plain, cipher, blocks>>
  BY DEF sessionVars, graphVars, lowering, recordingVars, userVars, store
<1>2. Settled
  BY <1>1, SettledOf
<1>3. /\ After' = After /\ Sources' = Sources /\ AllEncrypted' = AllEncrypted
      /\ \A n : IsLeaf(n)' = IsLeaf(n) /\ Visited(n)' = Visited(n)
      /\ Finished' = Finished /\ Built' = Built
  BY <1>1, <1>2, SettledMeans DEF Visited, Finished, Built
<1>4. LambdaInv'
  <2>1. ResultsFirst'
    BY <1>1 DEF MeaningInv, LambdaInv, ResultsFirst, OperationFits, NamesFit, ResultIn, ScalarIn,
       WrittenIn, Mentions, Target
  <2>2. SourcesIntact'
    BY <1>1, <1>3 DEF MeaningInv, LambdaInv, SourcesIntact, Original, IsEncrypted
  <2>3. Intended'
    BY <1>1, <1>3 DEF MeaningInv, LambdaInv, Intended, Symbolic, Canonical
  <2>4. QED
    BY <2>1, <2>2, <2>3 DEF LambdaInv
<1>5. Unstarted'
  BY <1>1 DEF MeaningInv, Unstarted
<1>6. phase \in Translating => GraphMeans'
  BY <1>1, <1>3, SameGraphMeans DEF MeaningInv, GraphMeans
<1>7. WalkMeans => WalkMeans'
  BY <1>1, <1>3 DEF WalkMeans, Children
<1>8. LoweringMeans => LoweringMeans'
  BY <1>1, <1>2, <1>3, LoweringStands
<1>9. HeldMeans => HeldMeans'
  BY <1>1, <1>2, HeldStands
<1>10. EvaluationMeans => EvaluationMeans'
  BY <1>1, <1>2, <1>3, EvaluationStands
<1>11. Delivered => Delivered'
  BY <1>1 DEF Delivered, Holds, IsEncrypted
<1>12. QED
  BY <1>1, <1>3, <1>4, <1>5, <1>6, <1>7, <1>8, <1>9, <1>10, <1>11 DEF MeaningInv

LEMMA MeantWalk ==
  ASSUME RunInv, RunInv', MeaningInv, Walk
  PROVE  MeaningInv'
<1>1. PICK walk : walk = IF start.runtime THEN "lower" ELSE "evaluate"
  OBVIOUS
<1>2. GraphNext(walk) /\ UNCHANGED <<recordingVars, hold>>
  BY <1>1 DEF Walk
<1>3. CASE BuildOperation
  BY <1>2, <1>3, MeantBuildOperation
<1>4. CASE GraphBuilt(walk)
  BY <1>1, <1>2, <1>4, MeantGraphBuilt
<1>5. CASE VisitRoot
  BY <1>2, <1>5, MeantVisitRoot
<1>6. CASE VisitChild
  BY <1>2, <1>6, MeantVisitChild
<1>7. CASE LowerLeaf
  BY <1>2, <1>7, MeantLowerLeaf
<1>8. CASE LowerAssignment
  BY <1>2, <1>8, MeantLowerAssignment
<1>9. CASE LowerArithmetic
  BY <1>2, <1>9, MeantLowerArithmetic
<1>10. CASE LoweringDone
  BY <1>2, <1>10, MeantLoweringDone
<1>11. CASE EvaluateLeaf
  BY <1>2, <1>11, MeantEvaluateLeaf
<1>12. CASE ExecuteAssignment
  BY <1>2, <1>12, MeantExecuteAssignment
<1>13. CASE ExecuteArithmetic
  BY <1>2, <1>13, MeantExecuteArithmetic
<1>14. CASE ExecuteThrows
  BY <1>2, <1>14, MeantExecuteThrows
<1>15. CASE EvaluationDone
  BY <1>2, <1>15, MeantEvaluationDone
<1>16. QED
  BY <1>2, <1>3, <1>4, <1>5, <1>6, <1>7, <1>8, <1>9, <1>10, <1>11, <1>12, <1>13, <1>14, <1>15
     DEF GraphNext

LEMMA MeantNext ==
  ASSUME RunInv, RunInv', MeaningInv, [Next]_sessionVars
  PROVE  MeaningInv'
<1>1. CASE Record
  BY <1>1, MeantRecorded
<1>2. CASE Walk
  BY <1>2, MeantWalk
<1>3. CASE Optimize \/ EndRun
  BY <1>3, MeantOptimize, MeantEndRun
<1>4. CASE Provision \/ ExecutorFails \/ WriteBack
  BY <1>4, MeantProvision, MeantExecutorFails, MeantWriteBack
<1>5. CASE UNCHANGED sessionVars
  BY <1>5, MeantStill
<1>6. QED
  BY <1>1, <1>2, <1>3, <1>4, <1>5 DEF Next, Run

(* In every state of every run, what has been recorded, translated or       *)
(* executed so far means what computing each statement at once would have   *)
(* (Session.h:97-101, Scheduler.h:57-136, LowerToFhnProgram.h:88-174,        *)
(* Session.cpp:36-133).                                                      *)
THEOREM MeaningInductive == Spec => []MeaningInv
<1>1. Init => MeaningInv
  BY RunInit, MeantInit
<1>2. RunInv /\ RunInv' /\ MeaningInv /\ [Next]_sessionVars => MeaningInv'
  BY MeantNext
<1>3. QED
  BY <1>1, <1>2, RunInductive, PTL DEF Spec

(* Whatever was recorded, the lowered program computes it, and evaluation   *)
(* without an FHN runtime executes it operation by operation in order       *)
(* (Scheduler.h:57-136, LowerToFhnProgram.h:88-174, ASTNode.h:26-35).        *)
THEOREM GraphMeant == Spec => []GraphMeansRecording
<1>1. RunInv /\ MeaningInv => GraphMeansRecording
  BY LoweredMeans, EvaluatedMeans DEF GraphMeansRecording
<1>2. QED
  BY <1>1, RunInductive, MeaningInductive, PTL

(* A run that succeeds leaves in every caller variable what computing each  *)
(* statement at once would have left (Session.h:97-101, Session.cpp:36-133). *)
THEOREM ImmediateSuccess == Spec => []SuccessIsImmediate
<1>1. MeaningInv => SuccessIsImmediate
  BY DEF MeaningInv, SuccessIsImmediate, AllEncrypted
<1>2. QED
  BY <1>1, MeaningInductive, PTL
=============================================================================
