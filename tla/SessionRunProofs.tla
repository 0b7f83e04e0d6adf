-------------------------- MODULE SessionRunProofs --------------------------
(***************************************************************************)
(* One run of a session, whatever the lambda does: nothing dead is          *)
(* evaluated, every buffer has one owner, what is lowered can be planned,   *)
(* and a run that fails leaves no trace.                                    *)
(***************************************************************************)
EXTENDS SessionRun, FiniteSetTheorems, TLAPS

-----------------------------------------------------------------------------
(* The naturals.                                                            *)

(* The least element of a set that is not empty, the greatest of a bounded  *)
(* one.                                                                    *)
LEMMA LeastOf ==
  ASSUME NEW S, S \subseteq Nat, S # {}
  PROVE  Min(S) \in S /\ \A y \in S : Min(S) <= y
<1> DEFINE R == OpToRel(<, Nat)
<1>1. \A x, y \in Nat : y < x => <<y, x>> \in R
  BY DEF OpToRel
<1>2. IsWellFoundedOn(R, Nat)
  BY NatLessThanWellFounded, Zenon
<1> HIDE DEF R
<1>3. PICK x \in S : \A y \in S : ~(<<y, x>> \in R)
  BY <1>2, WFMin, Zenon
<1>4. \A y \in S : ~(y < x)
  BY <1>1, <1>3
<1>5. \A y \in S : x <= y
  BY <1>4
<1>6. QED
  BY <1>5 DEF Min

LEMMA GreatestOf ==
  ASSUME NEW n \in Nat, NEW S, S \subseteq 0..n, S # {}
  PROVE  Max(S) \in S /\ \A y \in S : y <= Max(S)
<1> DEFINE U == {n - t : t \in S}
<1>1. U \subseteq Nat /\ U # {}
  <2>1. \A t \in S : n - t \in Nat
    OBVIOUS
  <2>2. PICK t \in S : TRUE
    OBVIOUS
  <2>3. n - t \in U
    OBVIOUS
  <2>4. QED
    BY <2>1, <2>3
<1>2. PICK u \in U : \A x \in U : u <= x
  BY <1>1, LeastOf
<1>3. PICK x \in S : u = n - x
  OBVIOUS
<1>4. \A y \in S : n - y \in U
  OBVIOUS
<1>5. \A y \in S : x >= y
  BY <1>2, <1>3, <1>4
<1>6. Max(S) \in S /\ \A y \in S : Max(S) >= y
  BY <1>5 DEF Max
<1>7. QED
  BY <1>6

(* Induction: a set that holds 0 and the successor of what it holds.        *)
LEMMA InductionOnSet ==
  ASSUME NEW S, 0 \in S, \A n \in Nat : n \in S => n + 1 \in S
  PROVE  Nat \subseteq S
<1> SUFFICES ASSUME Nat \ S # {}
             PROVE  FALSE
  OBVIOUS
<1>1. PICK x \in Nat \ S : \A y \in Nat \ S : x <= y
  <2>1. Nat \ S \subseteq Nat
    OBVIOUS
  <2>2. QED
    BY <2>1, LeastOf
<1>2. x - 1 \in Nat /\ x - 1 \in S
  BY <1>1
<1>3. QED
  BY <1>1, <1>2

-----------------------------------------------------------------------------
(* Sequences.                                                               *)

(* A sequence of anything is one of its own elements; so it stays when an   *)
(* element is appended.                                                     *)
LEMMA SequenceOfElements ==
  ASSUME NEW S, NEW s \in Seq(S)
  PROVE  s \in Seq(Range(s)) /\ Len(s) \in Nat /\ DOMAIN s = 1..Len(s)
<1>1. Len(s) \in Nat /\ DOMAIN s = 1..Len(s)
  OBVIOUS
<1>2. \A k \in 1..Len(s) : s[k] \in Range(s)
  BY <1>1 DEF Range
<1>3. s \in Seq(Range(s))
  BY <1>2
<1>4. QED
  BY <1>1, <1>3

LEMMA SequenceGrows ==
  ASSUME NEW o, o \in Seq(Range(o)), NEW x
  PROVE  LET p == Append(o, x) IN
           /\ p \in Seq(Range(p))
           /\ Len(p) = Len(o) + 1 /\ p[Len(o) + 1] = x
           /\ \A k \in 1..Len(o) : p[k] = o[k]
           /\ Len(o) \in Nat /\ DOMAIN o = 1..Len(o) /\ DOMAIN p = 1..(Len(o) + 1)
<1> DEFINE S == Range(o) \cup {x}
           p == Append(o, x)
<1>1. o \in Seq(S) /\ x \in S
  OBVIOUS
<1> HIDE DEF S
<1>2. /\ p \in Seq(S) /\ Len(p) = Len(o) + 1 /\ p[Len(o) + 1] = x /\ Len(o) \in Nat
      /\ \A k \in 1..Len(o) : p[k] = o[k]
      /\ DOMAIN o = 1..Len(o) /\ DOMAIN p = 1..(Len(o) + 1)
  BY <1>1
<1> HIDE DEF p
<1>3. p \in Seq(Range(p))
  BY <1>2, SequenceOfElements
<1>4. QED
  BY <1>2, <1>3 DEF p

LEMMA Appended ==
  ASSUME NEW S, NEW s \in Seq(S), NEW x \in S
  PROVE  /\ Append(s, x) \in Seq(S) /\ Len(Append(s, x)) = Len(s) + 1
         /\ DOMAIN Append(s, x) = 1..(Len(s) + 1) /\ Append(s, x)[Len(s) + 1] = x
         /\ Len(s) \in Nat /\ DOMAIN s = 1..Len(s)
         /\ \A k \in 1..Len(s) : Append(s, x)[k] = s[k]
OBVIOUS

LEMMA OneElement ==
  ASSUME NEW S, NEW x \in S
  PROVE  <<x>> \in Seq(S)
OBVIOUS

LEMMA JoinedTwo ==
  ASSUME NEW S, NEW s \in Seq(S), NEW x \in S, NEW y \in S
  PROVE  LET t == s \o <<x, y>> IN
           /\ t \in Seq(S) /\ Len(t) = Len(s) + 2 /\ DOMAIN t = 1..(Len(s) + 2)
           /\ Len(s) \in Nat /\ DOMAIN s = 1..Len(s)
           /\ t[Len(s) + 1] = x /\ t[Len(s) + 2] = y
           /\ \A k \in 1..Len(s) : t[k] = s[k]
OBVIOUS

LEMMA JoinedOne ==
  ASSUME NEW S, NEW s \in Seq(S), NEW x \in S
  PROVE  LET t == s \o <<x>> IN
           /\ t \in Seq(S) /\ Len(t) = Len(s) + 1 /\ DOMAIN t = 1..(Len(s) + 1)
           /\ Len(s) \in Nat /\ DOMAIN s = 1..Len(s)
           /\ t[Len(s) + 1] = x
           /\ \A k \in 1..Len(s) : t[k] = s[k]
OBVIOUS

LEMMA Popped ==
  ASSUME NEW S, NEW s \in Seq(S), s # << >>
  PROVE  /\ SubSeq(s, 1, Len(s) - 1) \in Seq(S)
         /\ s[Len(s)] \in S /\ Len(s) \in Nat \ {0}
<1>1. Len(s) \in Nat \ {0} /\ \A k \in 1..Len(s) : s[k] \in S
  OBVIOUS
<1>2. s[Len(s)] \in S
  BY <1>1
<1>3. SubSeq(s, 1, Len(s) - 1) \in Seq(S)
  BY <1>1
<1>4. QED
  BY <1>1, <1>2, <1>3

-----------------------------------------------------------------------------
(* entity_map_.                                                             *)

LEMMA EntityFacts ==
  /\ Callers \subseteq Names /\ Locals \subseteq Names /\ Names \subseteq Entities
  /\ 1..MaxTemps \subseteq Entities /\ MaxTemps \in Nat
  /\ \A n \in Names : n \notin 1..MaxTemps
  /\ \A n \in Callers : n \notin Locals
  /\ Nothing \notin Entities
BY EntitiesAssumption, MaxTempsAssumption DEF Names, Entities

WellTracked(m, t, S, alive, k, n) ==
  /\ Registered(t, alive, n)
  /\ \A e \in Entities : m[e] = e => t[e] = e
  /\ \A e \in S : /\ e \in Entities /\ t[e] = Canonical(m, e) /\ t[e] \in Entities
                  /\ t[t[e]] = t[e] /\ Canonical(t, e) = t[e]
  /\ \A e \in Entities : e \notin S => t[e] = m[e]
  /\ \A e \in (k + 1)..n : t[e] = e

(* Tracking entities that live registers each of them and leaves what was   *)
(* canonical canonical.  The objects an expression makes are among them.    *)
LEMMA TrackedKeeps ==
  ASSUME NEW m, NEW alive, alive \subseteq Names, NEW k \in Nat, Registered(m, alive, k),
         NEW n \in Nat, k <= n, n <= MaxTemps,
         NEW S, S \subseteq alive \cup 1..n, (k + 1)..n \subseteq S
  PROVE  WellTracked(m, Tracked(m, S), S, alive, k, n)
<1> DEFINE t == Tracked(m, S)
<1>1. /\ m \in [Entities -> Entities \cup {Nothing}]
      /\ \A e \in Entities :
           m[e] # Nothing =>
             /\ e \in alive \cup 1..k
             /\ m[m[e]] = m[e]
             /\ m[e] = e \/ m[e] \in 1..k
      /\ \A j \in 1..k : m[j] = j
  BY DEF Registered
<1>2. /\ alive \subseteq Entities /\ 1..n \subseteq Entities /\ S \subseteq Entities
      /\ Nothing \notin Entities /\ 1..k \subseteq 1..n
      /\ \A a \in alive : a \notin 1..n
  BY EntityFacts
<1>3. \A e \in Entities : t[e] = IF e \in S /\ m[e] = Nothing THEN e ELSE m[e]
  BY DEF Tracked
<1>4. t \in [Entities -> Entities \cup {Nothing}]
  BY <1>1, <1>2 DEF Tracked
<1> HIDE DEF t
<1>5. \A e \in Entities : m[e] = e => t[e] = e
  BY <1>2, <1>3
<1>6. \A e \in Entities : e \notin S => t[e] = m[e]
  BY <1>3
<1>7. \A e \in S : t[e] = e \/ (t[e] = m[e] /\ m[e] # Nothing)
  BY <1>2, <1>3
<1>8. \A e \in (k + 1)..n : t[e] = e
  <2> TAKE e \in (k + 1)..n
  <2>1. e \in S /\ e \in 1..n /\ e \notin 1..k /\ e \notin alive
    BY <1>2
  <2>2. m[e] = Nothing
    BY <1>1, <1>2, <2>1
  <2>3. QED
    BY <1>2, <1>3, <2>1, <2>2
<1>9. \A j \in 1..n : t[j] = j
  BY <1>1, <1>2, <1>5, <1>8
<1>10. ASSUME NEW e \in Entities, t[e] # Nothing
       PROVE  /\ e \in alive \cup 1..n /\ t[t[e]] = t[e] /\ (t[e] = e \/ t[e] \in 1..n)
              /\ t[e] \in Entities
  <2>1. CASE t[e] = e /\ m[e] = Nothing
    <3>1. e \in S
      BY <1>2, <1>6, <2>1
    <3>2. QED
      BY <1>2, <2>1, <3>1
  <2>2. CASE t[e] = m[e]
    <3>1. m[e] # Nothing /\ m[e] \in Entities /\ m[m[e]] = m[e]
          /\ e \in alive \cup 1..k /\ (m[e] = e \/ m[e] \in 1..k)
      BY <1>1, <1>10, <2>2
    <3>2. t[m[e]] = m[e]
      BY <1>5, <3>1
    <3>3. QED
      BY <1>2, <2>2, <3>1, <3>2
  <2>3. QED
    BY <1>3, <1>10, <2>1, <2>2
<1>11. \A e \in S : /\ e \in Entities /\ t[e] = Canonical(m, e) /\ t[e] \in Entities
                    /\ t[t[e]] = t[e] /\ Canonical(t, e) = t[e]
  <2> TAKE e \in S
  <2>1. e \in Entities /\ t[e] # Nothing
    BY <1>2, <1>7
  <2>2. t[e] = Canonical(m, e) /\ Canonical(t, e) = t[e]
    BY <1>3, <2>1 DEF Canonical
  <2>3. QED
    BY <1>10, <2>1, <2>2
<1>12. Registered(t, alive, n)
  BY <1>4, <1>9, <1>10 DEF Registered
<1>13. QED
  BY <1>5, <1>6, <1>8, <1>11, <1>12 DEF WellTracked, t

Collapsed(m, t, r) == [m EXCEPT ![t] = r]

WellCollapsed(m, c, alive, k) ==
  Registered(c, alive, k) /\ \A e \in Entities : m[e] = e => c[e] = e

(* A new name for an object an expression made.                             *)
LEMMA CollapsedKeeps ==
  ASSUME NEW m, NEW alive, alive \subseteq Names, NEW k \in Nat, k <= MaxTemps,
         Registered(m, alive, k),
         NEW t \in Names \ alive, NEW r \in 1..k
  PROVE  WellCollapsed(m, Collapsed(m, t, r), alive \cup {t}, k)
<1> DEFINE c == Collapsed(m, t, r)
<1>1. /\ m \in [Entities -> Entities \cup {Nothing}]
      /\ \A e \in Entities :
           m[e] # Nothing =>
             /\ e \in alive \cup 1..k
             /\ m[m[e]] = m[e]
             /\ m[e] = e \/ m[e] \in 1..k
      /\ \A j \in 1..k : m[j] = j
  BY DEF Registered
<1>2. /\ t \in Entities /\ 1..k \subseteq Entities /\ t \notin 1..k /\ r \in Entities
      /\ Nothing \notin Entities
  BY EntityFacts
<1>3. /\ c \in [Entities -> Entities \cup {Nothing}] /\ c[t] = r
      /\ \A e \in Entities : e # t => c[e] = m[e]
  BY <1>1, <1>2 DEF Collapsed
<1> HIDE DEF c
<1>4. m[t] = Nothing
  BY <1>1, <1>2
<1>5. \A e \in Entities : m[e] = e => c[e] = e
  BY <1>2, <1>3, <1>4
<1>6. ASSUME NEW e \in Entities, c[e] # Nothing
      PROVE  /\ e \in (alive \cup {t}) \cup 1..k /\ c[c[e]] = c[e]
             /\ (c[e] = e \/ c[e] \in 1..k)
  <2>1. CASE e = t
    BY <1>1, <1>2, <1>3, <1>5, <2>1
  <2>2. CASE e # t
    <3>1. c[e] = m[e] /\ m[e] \in Entities /\ m[m[e]] = m[e]
          /\ e \in alive \cup 1..k /\ (m[e] = e \/ m[e] \in 1..k)
      BY <1>1, <1>3, <1>6, <2>2
    <3>2. QED
      BY <1>5, <3>1
  <2>3. QED
    BY <2>1, <2>2
<1>7. \A j \in 1..k : c[j] = j
  BY <1>1, <1>2, <1>5
<1>8. Registered(c, alive \cup {t}, k)
  BY <1>3, <1>6, <1>7 DEF Registered
<1>9. QED
  BY <1>5, <1>8 DEF WellCollapsed, c

(* A name that dies is forgotten; what was canonical stays so, unless it is *)
(* the one that dies.                                                       *)
Forgotten(m, S) == [e \in Entities |-> IF e \in S THEN Nothing ELSE m[e]]

WellForgotten(m, f, S, alive, k) ==
  /\ Registered(f, alive \ S, k)
  /\ \A e \in Entities : m[e] = e /\ e \notin S => f[e] = e

LEMMA ForgottenKeeps ==
  ASSUME NEW m, NEW alive, alive \subseteq Names, NEW k \in Nat, k <= MaxTemps,
         Registered(m, alive, k), NEW S, S \subseteq Names
  PROVE  WellForgotten(m, Forgotten(m, S), S, alive, k)
<1> DEFINE f == Forgotten(m, S)
<1>1. /\ m \in [Entities -> Entities \cup {Nothing}]
      /\ \A e \in Entities :
           m[e] # Nothing =>
             /\ e \in alive \cup 1..k
             /\ m[m[e]] = m[e]
             /\ m[e] = e \/ m[e] \in 1..k
      /\ \A j \in 1..k : m[j] = j
  BY DEF Registered
<1>2. /\ 1..k \subseteq Entities /\ \A e \in 1..k : e \notin S
  BY EntityFacts
<1>3. /\ f \in [Entities -> Entities \cup {Nothing}]
      /\ \A e \in Entities : f[e] = IF e \in S THEN Nothing ELSE m[e]
  BY <1>1 DEF Forgotten
<1> HIDE DEF f
<1>4. ASSUME NEW e \in Entities, f[e] # Nothing
      PROVE  /\ e \in (alive \ S) \cup 1..k /\ f[f[e]] = f[e]
             /\ (f[e] = e \/ f[e] \in 1..k)
  <2>1. e \notin S /\ f[e] = m[e]
    BY <1>3, <1>4
  <2>2. m[e] \in Entities /\ m[m[e]] = m[e]
        /\ e \in alive \cup 1..k /\ (m[e] = e \/ m[e] \in 1..k)
    BY <1>1, <1>4, <2>1
  <2>3. m[e] \notin S
    BY <1>2, <2>1, <2>2
  <2>4. QED
    BY <1>2, <1>3, <2>1, <2>2, <2>3
<1>5. \A j \in 1..k : f[j] = j
  BY <1>1, <1>2, <1>3
<1>6. Registered(f, alive \ S, k)
  BY <1>3, <1>4, <1>5 DEF Registered
<1>7. QED
  BY <1>3, <1>6 DEF WellForgotten, f

-----------------------------------------------------------------------------
(* Before the lambda starts.                                                *)

(* The encrypted callers have a control block each.                         *)
LEMMA IndexInjective ==
  /\ Cardinality(Callers) \in Nat
  /\ Index \in [Callers -> 1..Cardinality(Callers)]
  /\ \A c, d \in Callers : Index[c] = Index[d] => c = d
<1> DEFINE n == Cardinality(Callers)
           Apart(f) == \A c, d \in Callers : f[c] = f[d] => c = d
<1>1. n \in Nat /\ ExistsBijection(1..n, Callers)
  BY EntitiesAssumption, FS_CardinalityType
<1>2. PICK g \in [1..n -> Callers] : \A c \in Callers : \E k \in 1..n : g[k] = c
  BY <1>1 DEF ExistsBijection, Bijection, Injection, Surjection
<1> DEFINE f == [c \in Callers |-> CHOOSE k \in 1..n : g[k] = c]
<1>3. \A c \in Callers : f[c] \in 1..n /\ g[f[c]] = c
  BY <1>2
<1>4. f \in [Callers -> 1..n] /\ Apart(f)
  BY <1>3
<1> HIDE DEF f
<1>5. \E h \in [Callers -> 1..n] : Apart(h)
  BY <1>4
<1>6. Index \in [Callers -> 1..n] /\ Apart(Index)
  BY <1>5 DEF Index
<1>7. QED
  BY <1>1, <1>6

LEMMA RunInit ==
  ASSUME Init
  PROVE  RunInv
<1>1. /\ start \in Starts /\ phase = "record" /\ temps = << >> /\ recording = << >>
      /\ plain = [e \in Entities |-> <<e>>]
      /\ cipher = [e \in Entities |->
                     IF e \in Callers /\ start.owner[e] # Nothing THEN Index[e] ELSE 0]
      /\ blocks = [b \in 1..Cardinality(Callers) |->
                     LET c == CHOOSE d \in Callers : Index[d] = b
                     IN  Block(b, start.owner[c], <<c>>)]
      /\ map = [e \in Entities |-> IF e \in start.known THEN e ELSE Nothing]
      /\ ~poisoned /\ live = Callers /\ moved = {}
      /\ next = 1 /\ graph = EmptyGraph /\ stack = << >>
      /\ code = << >> /\ inputs = << >> /\ bindings = << >> /\ hold = << >>
  BY DEF Init, RecordingInit, GraphInit
<1>2. start \in Start /\ start.known \subseteq Callers
  BY <1>1, StartsAssumption DEF Start
<1>3. RecordedTyped
  BY <1>1, EntityFacts DEF RecordedTyped
<1>4. Registered(map, live, Len(temps))
  <2>1. Len(temps) = 0 /\ 1..Len(temps) = {}
    BY <1>1
  <2>2. map \in [Entities -> Entities \cup {Nothing}]
    BY <1>1
  <2>3. \A e \in Entities : map[e] # Nothing => map[e] = e /\ e \in live
    BY <1>1, <1>2
  <2>4. QED
    BY <2>1, <2>2, <2>3 DEF Registered
<1>5. RecordedCanonical
  BY <1>1 DEF RecordedCanonical
<1>6. /\ Len(blocks) = Cardinality(Callers) /\ DOMAIN blocks = 1..Cardinality(Callers)
      /\ blocks \in Seq(Range(blocks))
      /\ \A b \in DOMAIN blocks :
           blocks[b].raw = b /\ blocks[b].holds = <<CHOOSE d \in Callers : Index[d] = b>>
  <2> DEFINE n == Cardinality(Callers)
             S == Range(blocks)
  <2>1. n \in Nat
    BY IndexInjective
  <2>2. DOMAIN blocks = 1..n
    BY <1>1
  <2>3. Len(blocks) = n /\ blocks \in Seq(S)
    <3>1. blocks = [b \in 1..n |-> blocks[b]]
      BY <1>1
    <3>2. \A b \in 1..n : blocks[b] \in S
      BY <2>2 DEF Range
    <3> HIDE DEF S
    <3>3. blocks \in [1..n -> S]
      BY <3>1, <3>2
    <3>4. QED
      BY <2>1, <3>3
  <2>4. \A b \in 1..n :
          blocks[b] = Block(b, start.owner[CHOOSE d \in Callers : Index[d] = b],
                            <<CHOOSE d \in Callers : Index[d] = b>>)
    BY <1>1
  <2>5. \A b \in 1..n :
          blocks[b].raw = b /\ blocks[b].holds = <<CHOOSE d \in Callers : Index[d] = b>>
    <3> TAKE b \in 1..n
    <3>1. blocks[b] = Block(b, start.owner[CHOOSE d \in Callers : Index[d] = b],
                            <<CHOOSE d \in Callers : Index[d] = b>>)
      BY <2>4
    <3>2. QED
      BY <3>1 DEF Block
  <2>6. QED
    BY <2>2, <2>3, <2>5
<1>7. StoreTyped
  <2>1. cipher \in [Entities -> 0..Len(blocks)]
    BY <1>1, <1>6, IndexInjective
  <2>2. QED
    BY <1>1, <1>6, <2>1 DEF StoreTyped
<1>8. Untouched
  <2> SUFFICES ASSUME NEW c \in Callers
               PROVE  /\ cipher[c] = Started(c) /\ plain[c] = <<c>>
                      /\ Index[c] \in DOMAIN blocks /\ blocks[Index[c]].holds = <<c>>
    BY DEF Untouched
  <2>1. Index[c] \in DOMAIN blocks
    BY <1>6, IndexInjective
  <2>2. (CHOOSE d \in Callers : Index[d] = Index[c]) = c
    BY IndexInjective
  <2>3. cipher[c] = Started(c) /\ plain[c] = <<c>>
    BY <1>1, EntityFacts DEF Started
  <2>4. QED
    BY <1>6, <2>1, <2>2, <2>3
<1>9. Staged
  BY <1>1 DEF Staged, Phases, Translating
<1>10. QED
  BY <1>3, <1>4, <1>5, <1>7, <1>8, <1>9 DEF RunInv

-----------------------------------------------------------------------------
(* While the lambda executes.                                               *)

LEMMA MentionsAreEntities ==
  ASSUME NEW op \in Recordable
  PROVE  Mentions(op) \subseteq Entities
BY DEF Recordable, Operation, Mentions, Target, Arithmetic

LEMMA UsableNames ==
  ASSUME RunInv
  PROVE  /\ Usable \subseteq live /\ Usable \subseteq Names /\ live \subseteq Names
         /\ live \subseteq Entities /\ Nothing \notin Usable
         /\ Len(temps) \in Nat /\ Len(temps) <= MaxTemps /\ DOMAIN temps = 1..Len(temps)
BY EntityFacts DEF RunInv, RecordedTyped, Usable

(* The rest of the run has not begun.                                       *)
LEMMA StagedStill ==
  ASSUME RunInv, phase = "record", phase' \in {"record", "optimize", "throw"},
         UNCHANGED <<graphVars, hold>>
  PROVE  Staged'
<1>1. UNCHANGED <<next, graph, stack, code, inputs, bindings, hold>>
  BY DEF graphVars, lowering
<1>2. /\ graph = EmptyGraph /\ next \in Nat \ {0} /\ stack = << >> /\ code = << >>
      /\ inputs = << >> /\ bindings = << >> /\ DOMAIN hold \subseteq Nat
  BY DEF RunInv, Staged
<1>3. QED
  BY <1>1, <1>2 DEF Staged, Phases, Translating, EmptyGraph

(* The canonical entities of the recording stay so, and those of what is    *)
(* added to it are canonical.                                               *)
LEMMA CanonicalStill ==
  ASSUME RunInv, poisoned' = poisoned,
         \A e \in Entities : map[e] = e => map'[e] = e,
         NEW n \in Nat, DOMAIN recording' = 1..n, Len(recording) <= n,
         \A k \in 1..Len(recording) : recording'[k] = recording[k],
         \A k \in (Len(recording) + 1)..n : \A e \in Mentions(recording'[k]) : map'[e] = e
  PROVE  RecordedCanonical'
<1> SUFFICES ASSUME ~poisoned, NEW k \in 1..n, NEW e \in Mentions(recording'[k])
             PROVE  map'[e] = e
  BY DEF RecordedCanonical, Mentions, Target
<1>1. recording \in Seq(Recordable) /\ Len(recording) \in Nat
      /\ DOMAIN recording = 1..Len(recording)
  BY DEF RunInv, RecordedTyped
<1>2. CASE k \in 1..Len(recording)
  <2>1. recording[k] \in Recordable /\ e \in Mentions(recording[k])
    BY <1>1, <1>2
  <2>2. map[e] = e
    BY <1>1, <1>2, <2>1 DEF RunInv, RecordedCanonical
  <2>3. QED
    BY <2>1, <2>2, MentionsAreEntities
<1>3. CASE k \in (Len(recording) + 1)..n
  BY <1>3
<1>4. QED
  BY <1>1, <1>2, <1>3

LEMMA UntouchedStill ==
  ASSUME RunInv, phase = "record", start' = start,
         (live' \cap Callers) \ moved' \subseteq (live \cap Callers) \ moved,
         \A c \in (live' \cap Callers) \ moved' : cipher'[c] = cipher[c] /\ plain'[c] = plain[c],
         \A b \in DOMAIN blocks : b \in DOMAIN blocks' /\ blocks'[b] = blocks[b]
  PROVE  Untouched'
<1> SUFFICES ASSUME start.runtime, NEW c \in (live' \cap Callers) \ moved'
             PROVE  /\ cipher'[c] = Started(c) /\ plain'[c] = <<c>>
                    /\ Index[c] \in DOMAIN blocks' /\ blocks'[Index[c]].holds = <<c>>
  BY DEF Untouched, Started
<1>1. /\ cipher[c] = Started(c) /\ plain[c] = <<c>>
      /\ Index[c] \in DOMAIN blocks /\ blocks[Index[c]].holds = <<c>>
  BY DEF RunInv, Untouched
<1>2. QED
  BY <1>1

(* An entity is encrypted.                                                  *)
LEMMA BlockMade ==
  ASSUME StoreTyped, NEW e \in Entities, NEW owner, NEW value,
         cipher' = [cipher EXCEPT ![e] = Len(blocks) + 1],
         blocks' = Append(blocks, Block(Len(blocks) + 1, owner, value)),
         DOMAIN plain' = Entities
  PROVE  /\ StoreTyped'
         /\ \A b \in DOMAIN blocks : b \in DOMAIN blocks' /\ blocks'[b] = blocks[b]
<1>0. PICK x : x = Block(Len(blocks) + 1, owner, value)
  OBVIOUS
<1>1. /\ blocks' \in Seq(Range(blocks'))
      /\ Len(blocks') = Len(blocks) + 1 /\ blocks'[Len(blocks) + 1] = x
      /\ \A k \in 1..Len(blocks) : blocks'[k] = blocks[k]
      /\ Len(blocks) \in Nat /\ DOMAIN blocks = 1..Len(blocks)
      /\ DOMAIN blocks' = 1..(Len(blocks) + 1)
  <2>1. PICK p : p = Append(blocks, x)
    OBVIOUS
  <2>2. blocks' = p
    BY <1>0, <2>1
  <2>3. /\ p \in Seq(Range(p))
        /\ Len(p) = Len(blocks) + 1 /\ p[Len(blocks) + 1] = x
        /\ \A k \in 1..Len(blocks) : p[k] = blocks[k]
        /\ Len(blocks) \in Nat /\ DOMAIN blocks = 1..Len(blocks)
        /\ DOMAIN p = 1..(Len(blocks) + 1)
    <3>1. blocks \in Seq(Range(blocks))
      BY DEF StoreTyped
    <3>2. QED
      BY <2>1, <3>1, SequenceGrows
  <2>4. QED
    BY <2>2, <2>3
<1>2. x.raw = Len(blocks) + 1
  BY <1>0 DEF Block
<1>3. \A b \in DOMAIN blocks' : blocks'[b].raw = b
  <2> TAKE b \in DOMAIN blocks'
  <2>1. CASE b \in 1..Len(blocks)
    BY <1>1, <2>1 DEF StoreTyped
  <2>2. CASE b = Len(blocks) + 1
    BY <1>1, <1>2, <2>2
  <2>3. QED
    BY <1>1, <2>1, <2>2
<1>4. cipher' \in [Entities -> 0..Len(blocks')]
  BY <1>1 DEF StoreTyped
<1>5. StoreTyped'
  BY <1>1, <1>3, <1>4 DEF StoreTyped
<1>6. QED
  BY <1>1, <1>5

LEMMA StoreStill ==
  ASSUME StoreTyped, UNCHANGED store
  PROVE  /\ StoreTyped'
         /\ \A b \in DOMAIN blocks : b \in DOMAIN blocks' /\ blocks'[b] = blocks[b]
BY DEF StoreTyped, store

-----------------------------------------------------------------------------
(* What a statement encrypts is never a caller's: expressions encrypt their *)
(* literals, declarations the new variable.                                 *)
LEMMA MadeApart ==
  ASSUME RunInv, plain' = plain,
         \/ cipher' = cipher /\ blocks' = blocks
         \/ \E k \in Entities \ Callers :
              /\ cipher' = [cipher EXCEPT ![k] = Len(blocks) + 1]
              /\ blocks' = Append(blocks, Block(Len(blocks) + 1, "ours", <<k>>))
  PROVE  /\ StoreTyped'
         /\ \A c \in Callers : cipher'[c] = cipher[c] /\ plain'[c] = plain[c]
         /\ \A b \in DOMAIN blocks : b \in DOMAIN blocks' /\ blocks'[b] = blocks[b]
<1>1. StoreTyped
  BY DEF RunInv
<1>2. CASE cipher' = cipher /\ blocks' = blocks
  BY <1>1, <1>2, StoreStill DEF store
<1>3. CASE \E k \in Entities \ Callers :
             /\ cipher' = [cipher EXCEPT ![k] = Len(blocks) + 1]
             /\ blocks' = Append(blocks, Block(Len(blocks) + 1, "ours", <<k>>))
  <2>1. PICK k \in Entities \ Callers :
             /\ cipher' = [cipher EXCEPT ![k] = Len(blocks) + 1]
             /\ blocks' = Append(blocks, Block(Len(blocks) + 1, "ours", <<k>>))
    BY <1>3
  <2>2. PICK value : value = <<k>>
    OBVIOUS
  <2>3. /\ StoreTyped'
        /\ \A b \in DOMAIN blocks : b \in DOMAIN blocks' /\ blocks'[b] = blocks[b]
    <3>1. DOMAIN plain' = Entities
      BY <1>1 DEF StoreTyped
    <3>2. QED
      BY <1>1, <2>1, <2>2, <3>1, BlockMade
  <2>4. \A c \in Callers : cipher'[c] = cipher[c]
    BY <1>1, <2>1, EntityFacts DEF StoreTyped
  <2>5. QED
    BY <2>3, <2>4
<1>4. QED
  BY <1>2, <1>3

-----------------------------------------------------------------------------
(* Evaluating an expression: the operation it records mentions canonical    *)
(* entities, its result among them.                                         *)
ExpressionFits(e) ==
  /\ e.temps \in Seq(TempKinds) /\ Len(e.temps) <= MaxTemps
  /\ Len(temps) <= Len(e.temps)
  /\ Registered(e.map, live, Len(e.temps))
  /\ \A f \in Entities : map[f] = f => e.map[f] = f
  /\ e.result \in 1..Len(e.temps)
  /\ e.op \in Recordable
  /\ \A f \in Mentions(e.op) : e.map[f] = f
  /\ \/ e.cipher = cipher /\ e.blocks = blocks
     \/ \E k \in Entities \ Callers :
          /\ e.cipher = [cipher EXCEPT ![k] = Len(blocks) + 1]
          /\ e.blocks = Append(blocks, Block(Len(blocks) + 1, "ours", <<k>>))

LEMMA ExpressionKeeps ==
  ASSUME RunInv, NEW type \in Arithmetic, NEW y \in Usable, NEW z \in Usable \cup {Nothing},
         Evaluable(y, z)
  PROVE  ExpressionFits(Expression(type, y, z))
<1> DEFINE e == Expression(type, y, z)
           n == Len(temps)
<1>a. \A k \in 1..MaxTemps : k \in Entities \ Callers
  BY EntityFacts
<1>1. /\ Registered(map, live, n) /\ live \subseteq Names /\ temps \in Seq(TempKinds)
      /\ n \in Nat /\ y \in live /\ y # Nothing /\ live \subseteq Entities
      /\ 1..MaxTemps \subseteq Entities /\ MaxTemps \in Nat
  BY UsableNames, EntityFacts DEF RunInv, RecordedTyped
<1>2. {"result", "scalar"} \subseteq TempKinds
  BY DEF TempKinds
<1>3. CASE z # Nothing
  <2> DEFINE k == n + 1
             known == Tracked(map, {y, z, k})
             op == [type |-> type, operand1 |-> Canonical(known, y),
                    operand2 |-> Canonical(known, z), result |-> k]
  <2>1. /\ e.map = known /\ e.temps = temps \o <<"result">> /\ e.result = k
        /\ e.op = op /\ e.cipher = cipher /\ e.blocks = blocks
    BY <1>3 DEF Expression
  <2>2. z \in live /\ k <= MaxTemps
    <3>1. n + 1 <= MaxTemps
      BY <1>3 DEF Evaluable, Room
    <3>2. QED
      BY <1>1, <1>3, <3>1, UsableNames
  <2>3. e.temps \in Seq(TempKinds) /\ Len(e.temps) = k
    BY <1>1, <1>2, <2>1, JoinedOne
  <2>4. /\ Registered(known, live, k)
        /\ \A f \in Entities : map[f] = f => known[f] = f
        /\ \A f \in {y, z, k} : /\ f \in Entities /\ known[f] \in Entities
                                /\ known[known[f]] = known[f]
                                /\ Canonical(known, f) = known[f]
        /\ \A f \in (n + 1)..k : known[f] = f
    <3>1. {y, z, k} \subseteq live \cup 1..k /\ (n + 1)..k \subseteq {y, z, k}
      BY <1>1, <2>2
    <3>2. k \in Nat /\ n <= k
      BY <1>1
    <3>3. PICK S : S = {y, z, k}
      OBVIOUS
    <3>4. known = Tracked(map, S)
      BY <3>3
    <3> HIDE DEF known, k
    <3>5. /\ S \subseteq live \cup 1..k /\ (n + 1)..k \subseteq S
          /\ k <= MaxTemps /\ live \subseteq Names
      BY <1>1, <2>2, <3>1, <3>3
    <3>6. WellTracked(map, known, S, live, n, k)
      BY <1>1, <3>2, <3>4, <3>5, TrackedKeeps
    <3>7. QED
      BY <3>3, <3>6 DEF WellTracked
  <2>5. known[k] = k /\ k \in 1..k /\ n <= k
    BY <1>1, <2>4
  <2> HIDE DEF known, k
  <2>6. op \in Recordable
    BY <1>1, <2>4 DEF Recordable, Operation
  <2>7. \A f \in Mentions(op) : known[f] = f
    <3>1. op.type # "Assignment"
      BY DEF Arithmetic
    <3>2. Mentions(op) = {Canonical(known, y), Canonical(known, z), k}
      BY <3>1 DEF Mentions, Target
    <3>3. QED
      BY <2>4, <2>5, <3>2
  <2> HIDE DEF op
  <2>8. QED
    <3>1. /\ Len(temps) <= Len(e.temps) /\ Len(e.temps) <= MaxTemps
          /\ Registered(e.map, live, Len(e.temps)) /\ e.result \in 1..Len(e.temps)
      BY <2>1, <2>2, <2>3, <2>4, <2>5
    <3>2. QED
      BY <2>1, <2>3, <2>4, <2>6, <2>7, <3>1 DEF ExpressionFits
<1>4. CASE z = Nothing
  <2> DEFINE k == n + 1
             r == k + 1
             known == Tracked(map, {y, k, r})
             op == [type |-> type, operand1 |-> Canonical(known, y),
                    operand2 |-> Canonical(known, k), result |-> r]
  <2>1. /\ e.map = known /\ e.temps = temps \o <<"scalar", "result">> /\ e.result = r
        /\ e.op = op /\ e.cipher = [cipher EXCEPT ![k] = Len(blocks) + 1]
        /\ e.blocks = Append(blocks, Block(Len(blocks) + 1, "ours", <<k>>))
    BY <1>4 DEF Expression, Encrypted
  <2>2. r <= MaxTemps /\ k \in 1..MaxTemps /\ r \in Nat /\ r = n + 2
    <3>1. n + 2 <= MaxTemps
      BY <1>4 DEF Evaluable, Room
    <3>2. QED
      BY <1>1, <3>1
  <2>3. e.temps \in Seq(TempKinds) /\ Len(e.temps) = r
    BY <1>1, <1>2, <2>1, <2>2, JoinedTwo
  <2>4. /\ Registered(known, live, r)
        /\ \A f \in Entities : map[f] = f => known[f] = f
        /\ \A f \in {y, k, r} : /\ f \in Entities /\ known[f] \in Entities
                                /\ known[known[f]] = known[f]
                                /\ Canonical(known, f) = known[f]
        /\ \A f \in (n + 1)..r : known[f] = f
    <3>1. {y, k, r} \subseteq live \cup 1..r /\ (n + 1)..r \subseteq {y, k, r}
      BY <1>1, <2>2
    <3>2. r \in Nat /\ n <= r
      BY <1>1
    <3>3. PICK S : S = {y, k, r}
      OBVIOUS
    <3>4. known = Tracked(map, S)
      BY <3>3
    <3> HIDE DEF known, k, r
    <3>5. /\ S \subseteq live \cup 1..r /\ (n + 1)..r \subseteq S
          /\ r <= MaxTemps /\ live \subseteq Names
      BY <1>1, <2>2, <3>1, <3>3
    <3>6. WellTracked(map, known, S, live, n, r)
      BY <1>1, <3>2, <3>4, <3>5, TrackedKeeps
    <3>7. QED
      BY <3>3, <3>6 DEF WellTracked
  <2>5. known[r] = r /\ r \in 1..r /\ n <= r
    <3> HIDE DEF known, k, r
    <3>1. r \in (n + 1)..r
      BY <1>1, <2>2
    <3>2. QED
      BY <1>1, <2>2, <2>4, <3>1
  <2> HIDE DEF known, k, r
  <2>6. op \in Recordable
    BY <1>1, <2>4 DEF Recordable, Operation
  <2>7. \A f \in Mentions(op) : known[f] = f
    <3>1. op.type # "Assignment"
      BY DEF Arithmetic
    <3>2. Mentions(op) = {Canonical(known, y), Canonical(known, k), r}
      BY <3>1 DEF Mentions, Target
    <3>3. QED
      BY <2>4, <2>5, <3>2
  <2> HIDE DEF op
  <2>8. QED
    <3>1. /\ Len(temps) <= Len(e.temps) /\ Len(e.temps) <= MaxTemps
          /\ Registered(e.map, live, Len(e.temps)) /\ e.result \in 1..Len(e.temps)
      BY <2>1, <2>2, <2>3, <2>4, <2>5
    <3>2. k \in Entities \ Callers
      BY <1>a, <2>2
    <3>3. \E l \in Entities \ Callers :
            /\ e.cipher = [cipher EXCEPT ![l] = Len(blocks) + 1]
            /\ e.blocks = Append(blocks, Block(Len(blocks) + 1, "ours", <<l>>))
      BY <2>1, <3>2
    <3>4. QED
      BY <2>1, <2>3, <2>4, <2>6, <2>7, <3>1, <3>3 DEF ExpressionFits
<1>5. QED
  BY <1>3, <1>4

-----------------------------------------------------------------------------
(* The statements of the lambda.                                            *)

LEMMA RunAssignResult ==
  ASSUME RunInv, AssignResult, UNCHANGED <<graphVars, hold>>
  PROVE  RunInv'
<1>1. PICK type \in Arithmetic, x \in Usable, y \in Usable, z \in Usable \cup {Nothing} :
        /\ Evaluable(y, z)
        /\ LET e == Expression(type, y, z) IN
             /\ map' = Tracked(e.map, {x})
             /\ temps' = e.temps /\ cipher' = e.cipher /\ blocks' = e.blocks
             /\ recording' = recording \o
                  <<e.op, Assignment(Canonical(e.map, x), e.result)>>
             /\ now' = [now EXCEPT ![x] = e.value]
             /\ Assigning(x)
  BY Zenon DEF AssignResult
<1>2. PICK e : e = Expression(type, y, z)
  OBVIOUS
<1>3. ExpressionFits(e)
  BY <1>1, <1>2, ExpressionKeeps
<1>4. PICK a : a = Assignment(Canonical(e.map, x), e.result)
  OBVIOUS
<1>5. /\ map' = Tracked(e.map, {x}) /\ temps' = e.temps
      /\ cipher' = e.cipher /\ blocks' = e.blocks
      /\ recording' = recording \o <<e.op, a>>
  BY <1>1, <1>2, <1>4
<1>6. UNCHANGED <<phase, plain, start, poisoned, live, moved>> /\ phase = "record"
  BY DEF AssignResult, Executing
<1> DEFINE k == Len(e.temps)
<1>7. /\ live \subseteq Names /\ x \in live /\ k \in Nat /\ k <= MaxTemps
      /\ Registered(e.map, live, k) /\ {x} \subseteq live \cup 1..k
      /\ (k + 1)..k \subseteq {x} /\ 1..k \subseteq Entities
      /\ Len(temps) \in Nat
  BY <1>3, UsableNames, EntityFacts DEF ExpressionFits
<1>8. WellTracked(e.map, map', {x}, live, k, k)
  <2>1. PICK S : S = {x}
    OBVIOUS
  <2> HIDE DEF k
  <2>2. S \subseteq live \cup 1..k /\ (k + 1)..k \subseteq S
    BY <1>7, <2>1
  <2>3. PICK m : m = e.map
    OBVIOUS
  <2>4. WellTracked(m, Tracked(m, S), S, live, k, k)
    BY <1>7, <2>2, <2>3, TrackedKeeps
  <2>5. QED
    BY <1>5, <2>1, <2>3, <2>4
<1>9. a \in Recordable /\ Mentions(a) = {Canonical(e.map, x), e.result}
  <2>1. Canonical(e.map, x) \in Entities /\ e.result \in Entities
    <3>1. map'[x] = Canonical(e.map, x) /\ map'[x] \in Entities
      BY <1>8 DEF WellTracked
    <3>2. QED
      BY <1>3, <1>7, <3>1 DEF ExpressionFits
  <2>2. QED
    BY <1>4, <2>1 DEF Recordable, Operation, Assignment, Mentions, Target
<1>10. /\ recording \in Seq(Recordable) /\ e.op \in Recordable
  BY <1>3 DEF ExpressionFits, RunInv, RecordedTyped
<1> DEFINE n == Len(recording)
<1>11. /\ recording' \in Seq(Recordable) /\ n \in Nat
       /\ DOMAIN recording' = 1..(n + 2)
       /\ recording'[n + 1] = e.op /\ recording'[n + 2] = a
       /\ \A l \in 1..n : recording'[l] = recording[l]
  BY <1>5, <1>9, <1>10, JoinedTwo
<1>12. RecordedTyped'
  BY <1>3, <1>5, <1>6, <1>11 DEF RecordedTyped, RunInv, ExpressionFits
<1>13. Registered(map, live, Len(temps))'
  BY <1>5, <1>6, <1>8 DEF WellTracked
<1>14. RecordedCanonical'
  <2>1. \A f \in Entities : map[f] = f => map'[f] = f
    BY <1>3, <1>8 DEF WellTracked, ExpressionFits
  <2>2. \A f \in Mentions(e.op) : map'[f] = f
    <3> TAKE f \in Mentions(e.op)
    <3>1. e.map[f] = f /\ f \in Entities
      BY <1>3, <1>10, MentionsAreEntities DEF ExpressionFits
    <3>2. QED
      BY <1>8, <3>1 DEF WellTracked
  <2>3. \A f \in Mentions(a) : map'[f] = f
    <3>1. map'[Canonical(e.map, x)] = Canonical(e.map, x)
      BY <1>8 DEF WellTracked
    <3>2. map'[e.result] = e.result
      BY <1>3, <1>8 DEF WellTracked, ExpressionFits, Registered
    <3>3. QED
      BY <1>9, <3>1, <3>2
  <2> HIDE DEF n
  <2>4. \A l \in (n + 1)..(n + 2) : \A f \in Mentions(recording'[l]) : map'[f] = f
    <3> TAKE l \in (n + 1)..(n + 2)
    <3>1. l = n + 1 \/ l = n + 2
      BY <1>11
    <3>2. QED
      BY <1>11, <2>2, <2>3, <3>1
  <2>5. PICK q \in Nat : q = n + 2 /\ n <= q
    BY <1>11
  <2>6. QED
    BY <1>6, <1>11, <2>1, <2>4, <2>5, CanonicalStill DEF n
<1>15. /\ StoreTyped'
       /\ \A c \in Callers : cipher'[c] = cipher[c] /\ plain'[c] = plain[c]
       /\ \A b \in DOMAIN blocks : b \in DOMAIN blocks' /\ blocks'[b] = blocks[b]
  BY <1>3, <1>5, <1>6, MadeApart DEF ExpressionFits
<1>16. Untouched'
  BY <1>6, <1>15, UntouchedStill
<1>17. Staged'
  BY <1>6, StagedStill
<1>18. QED
  BY <1>12, <1>13, <1>14, <1>15, <1>16, <1>17 DEF RunInv

LEMMA OneMore ==
  ASSUME RunInv, NEW a \in Recordable, recording' = Append(recording, a),
         poisoned' = poisoned,
         \A e \in Entities : map[e] = e => map'[e] = e,
         \A e \in Mentions(a) : map'[e] = e
  PROVE  recording' \in Seq(Recordable) /\ RecordedCanonical'
<1> DEFINE n == Len(recording)
<1>1. recording \in Seq(Recordable)
  BY DEF RunInv, RecordedTyped
<1>2. /\ recording' \in Seq(Recordable) /\ n \in Nat
      /\ DOMAIN recording' = 1..(n + 1) /\ recording'[n + 1] = a
      /\ \A l \in 1..n : recording'[l] = recording[l]
  BY <1>1, Appended
<1> HIDE DEF n
<1>3. \A l \in (n + 1)..(n + 1) : \A f \in Mentions(recording'[l]) : map'[f] = f
  <2> TAKE l \in (n + 1)..(n + 1)
  <2>1. l = n + 1
    BY <1>2
  <2>2. QED
    BY <1>2, <2>1
<1>4. PICK q \in Nat : q = n + 1 /\ n <= q
  BY <1>2
<1>5. QED
  BY <1>2, <1>3, <1>4, CanonicalStill DEF n

LEMMA AssignmentRecordable ==
  ASSUME NEW v \in Entities, NEW w \in Entities
  PROVE  /\ Assignment(v, w) \in Recordable
         /\ Mentions(Assignment(v, w)) = {v, w}
BY DEF Recordable, Operation, Assignment, Mentions, Target

LEMMA RunAssignCopy ==
  ASSUME RunInv, AssignCopy, UNCHANGED <<graphVars, hold>>
  PROVE  RunInv'
<1>1. PICK x \in Usable, y \in Usable :
        LET known == Tracked(map, {x, y}) IN
          /\ map' = known
          /\ recording' = Append(recording,
               Assignment(Canonical(known, x), Canonical(known, y)))
  BY DEF AssignCopy
<1>2. /\ UNCHANGED <<phase, temps, store, start, poisoned, live, moved>>
      /\ phase = "record" /\ UNCHANGED <<plain, cipher, blocks>>
  BY DEF AssignCopy, Executing, store
<1>3. PICK S : S = {x, y}
  OBVIOUS
<1> DEFINE k == Len(temps)
<1>4. /\ live \subseteq Names /\ k \in Nat /\ k <= MaxTemps /\ Registered(map, live, k)
      /\ x \in live /\ y \in live
  BY UsableNames DEF RunInv
<1>5. WellTracked(map, map', S, live, k, k)
  <2>1. map' = Tracked(map, S)
    BY <1>1, <1>3
  <2> HIDE DEF k
  <2>2. S \subseteq live \cup 1..k /\ (k + 1)..k \subseteq S
    BY <1>3, <1>4
  <2>3. QED
    BY <1>4, <2>1, <2>2, TrackedKeeps
<1>6. PICK v \in Entities, w \in Entities :
        v = Canonical(map', x) /\ w = Canonical(map', y) /\ map'[v] = v /\ map'[w] = w
  BY <1>3, <1>5 DEF WellTracked
<1>7. PICK a \in Recordable : a = Assignment(v, w) /\ Mentions(a) = {v, w}
  BY AssignmentRecordable
<1>8. recording' = Append(recording, a)
  BY <1>1, <1>6, <1>7
<1>9. recording' \in Seq(Recordable) /\ RecordedCanonical'
  <2>1. \A e \in Entities : map[e] = e => map'[e] = e
    BY <1>5 DEF WellTracked
  <2>2. QED
    BY <1>2, <1>6, <1>7, <1>8, <2>1, OneMore
<1>10. RecordedTyped'
  BY <1>2, <1>9 DEF RecordedTyped, RunInv
<1>11. Registered(map, live, Len(temps))'
  BY <1>2, <1>5 DEF WellTracked
<1>12. /\ StoreTyped'
       /\ \A c \in Callers : cipher'[c] = cipher[c] /\ plain'[c] = plain[c]
       /\ \A b \in DOMAIN blocks : b \in DOMAIN blocks' /\ blocks'[b] = blocks[b]
  BY <1>2, MadeApart
<1>13. Untouched'
  BY <1>2, <1>12, UntouchedStill
<1>14. Staged'
  BY <1>2, StagedStill
<1>15. QED
  BY <1>9, <1>10, <1>11, <1>12, <1>13, <1>14 DEF RunInv

LEMMA RunAssignConstant ==
  ASSUME RunInv, AssignConstant, UNCHANGED <<graphVars, hold>>
  PROVE  RunInv'
<1> DEFINE n == Len(temps)
           k == n + 1
<1>1. PICK x \in Usable :
        LET known == Tracked(map, {x, k}) IN
          /\ HasProfile(x) /\ Room(1)
          /\ map' = known
          /\ temps' = Append(temps, "constant")
          /\ cipher' = [cipher EXCEPT ![k] = Len(blocks) + 1]
          /\ blocks' = Append(blocks, Encrypted(k))
          /\ recording' = Append(recording, Assignment(Canonical(known, x), k))
  BY DEF AssignConstant
<1>2. /\ UNCHANGED <<phase, plain, start, poisoned, live, moved>> /\ phase = "record"
  BY DEF AssignConstant, Executing
<1>3. PICK S : S = {x, k}
  OBVIOUS
<1>4. /\ live \subseteq Names /\ n \in Nat /\ Registered(map, live, n) /\ x \in live
      /\ temps \in Seq(TempKinds) /\ k \in Nat /\ n <= k /\ k = n + 1
  BY UsableNames DEF RunInv, RecordedTyped
<1>5. k <= MaxTemps /\ k \in 1..k
  BY <1>1, <1>4 DEF Room
<1>6. temps' \in Seq(TempKinds) /\ Len(temps') = k
  <2>1. "constant" \in TempKinds
    BY DEF TempKinds
  <2>2. QED
    BY <1>1, <1>4, <2>1, Appended
<1>7. WellTracked(map, map', S, live, n, k) /\ map'[k] = k
  <2>1. map' = Tracked(map, S)
    BY <1>1, <1>3
  <2> HIDE DEF k, n
  <2>2. S \subseteq live \cup 1..k /\ (n + 1)..k \subseteq S /\ k \in (n + 1)..k
    BY <1>3, <1>4, <1>5
  <2>3. WellTracked(map, map', S, live, n, k)
    BY <1>4, <1>5, <2>1, <2>2, TrackedKeeps
  <2>4. QED
    BY <2>2, <2>3 DEF WellTracked
<1>8. k \in Entities \ Callers
  <2> HIDE DEF k
  <2>1. k \in 1..MaxTemps
    BY <1>4, <1>5, EntityFacts
  <2>2. QED
    BY <2>1, EntityFacts
<1>9. PICK v \in Entities : v = Canonical(map', x) /\ map'[v] = v
  BY <1>3, <1>7 DEF WellTracked
<1>10. PICK a \in Recordable : a = Assignment(v, k) /\ Mentions(a) = {v, k}
  BY <1>8, AssignmentRecordable
<1>11. recording' = Append(recording, a)
  BY <1>1, <1>9, <1>10
<1>12. recording' \in Seq(Recordable) /\ RecordedCanonical'
  <2>1. \A e \in Entities : map[e] = e => map'[e] = e
    BY <1>7 DEF WellTracked
  <2>2. \A e \in Mentions(a) : map'[e] = e
    BY <1>7, <1>9, <1>10
  <2>3. QED
    BY <1>2, <1>10, <1>11, <2>1, <2>2, OneMore
<1>13. RecordedTyped'
  BY <1>2, <1>5, <1>6, <1>12 DEF RecordedTyped, RunInv
<1>14. Registered(map, live, Len(temps))'
  BY <1>2, <1>6, <1>7 DEF WellTracked
<1>15. /\ StoreTyped'
       /\ \A c \in Callers : cipher'[c] = cipher[c] /\ plain'[c] = plain[c]
       /\ \A b \in DOMAIN blocks : b \in DOMAIN blocks' /\ blocks'[b] = blocks[b]
  BY <1>1, <1>2, <1>8, MadeApart DEF Encrypted
<1>16. Untouched'
  BY <1>2, <1>15, UntouchedStill
<1>17. Staged'
  BY <1>2, StagedStill
<1>18. QED
  BY <1>12, <1>13, <1>14, <1>15, <1>16, <1>17 DEF RunInv

-----------------------------------------------------------------------------
(* The declarations.                                                        *)

LEMMA FreeName ==
  ASSUME Declaring
  PROVE  /\ Free \in Locals /\ Free \notin live /\ Free \in Names /\ Free \in Entities
         /\ Free \notin Callers
<1>1. \E t \in Locals : t \notin live
  BY DEF Declaring
<1>2. QED
  BY <1>1, EntityFacts DEF Free

LEMMA RunDeclareResult ==
  ASSUME RunInv, DeclareResult, UNCHANGED <<graphVars, hold>>
  PROVE  RunInv'
<1>1. PICK type \in Arithmetic, y \in Usable, z \in Usable \cup {Nothing} :
        /\ Evaluable(y, z)
        /\ LET e == Expression(type, y, z) IN
             /\ map' = [e.map EXCEPT ![Free] = e.result]
             /\ temps' = e.temps /\ cipher' = e.cipher /\ blocks' = e.blocks
             /\ recording' = Append(recording, e.op)
  BY DEF DeclareResult
<1>2. PICK e : e = Expression(type, y, z)
  OBVIOUS
<1>3. ExpressionFits(e)
  BY <1>1, <1>2, ExpressionKeeps
<1>4. /\ map' = [e.map EXCEPT ![Free] = e.result] /\ temps' = e.temps
      /\ cipher' = e.cipher /\ blocks' = e.blocks
      /\ recording' = Append(recording, e.op)
  BY <1>1, <1>2
<1>5. /\ UNCHANGED <<phase, plain, start, poisoned, moved>> /\ phase = "record"
      /\ live' = live \cup {Free}
  BY DEF DeclareResult, Declaring, Executing
<1>6. PICK t : t = Free /\ t \in Names \ live /\ t \notin Callers
  BY FreeName DEF DeclareResult
<1> DEFINE k == Len(e.temps)
<1>7. /\ live \subseteq Names /\ k \in Nat /\ k <= MaxTemps /\ Registered(e.map, live, k)
      /\ e.result \in 1..k /\ e.op \in Recordable
  BY <1>3, UsableNames DEF ExpressionFits
<1>8. /\ Registered(map', live', k)
      /\ \A f \in Entities : e.map[f] = f => map'[f] = f
  <2>1. PICK m, r : m = e.map /\ r = e.result
    OBVIOUS
  <2> HIDE DEF k
  <2>2. /\ map' = Collapsed(m, t, r) /\ live' = live \cup {t}
        /\ Registered(m, live, k) /\ r \in 1..k
    BY <1>4, <1>5, <1>6, <1>7, <2>1 DEF Collapsed
  <2>3. WellCollapsed(m, Collapsed(m, t, r), live \cup {t}, k)
    BY <1>6, <1>7, <2>2, CollapsedKeeps
  <2>4. QED
    BY <2>1, <2>2, <2>3 DEF WellCollapsed
<1>9. recording' \in Seq(Recordable) /\ RecordedCanonical'
  <2>1. \A f \in Entities : map[f] = f => map'[f] = f
    BY <1>3, <1>8 DEF ExpressionFits
  <2>2. \A f \in Mentions(e.op) : map'[f] = f
    BY <1>3, <1>7, <1>8, MentionsAreEntities DEF ExpressionFits
  <2>3. QED
    BY <1>4, <1>5, <1>7, <2>1, <2>2, OneMore
<1>10. RecordedTyped'
  BY <1>3, <1>4, <1>5, <1>6, <1>9 DEF RecordedTyped, RunInv, ExpressionFits
<1>11. Registered(map, live, Len(temps))'
  BY <1>4, <1>8
<1>12. /\ StoreTyped'
       /\ \A c \in Callers : cipher'[c] = cipher[c] /\ plain'[c] = plain[c]
       /\ \A b \in DOMAIN blocks : b \in DOMAIN blocks' /\ blocks'[b] = blocks[b]
  BY <1>3, <1>4, <1>5, MadeApart DEF ExpressionFits
<1>13. Untouched'
  BY <1>5, <1>6, <1>12, UntouchedStill
<1>14. Staged'
  BY <1>5, StagedStill
<1>15. QED
  BY <1>9, <1>10, <1>11, <1>12, <1>13, <1>14 DEF RunInv

(* Another name exists, of which entity_map_ knows nothing.                 *)
LEMMA RegisteredWithMore ==
  ASSUME NEW m, NEW alive, NEW k, NEW t, Registered(m, alive, k)
  PROVE  Registered(m, alive \cup {t}, k)
BY DEF Registered

LEMMA SameRecording ==
  ASSUME RunInv, recording' = recording, poisoned' = poisoned,
         \A e \in Entities : map[e] = e => map'[e] = e
  PROVE  RecordedCanonical'
<1>1. recording \in Seq(Recordable)
  BY DEF RunInv, RecordedTyped
<1>2. \A k \in DOMAIN recording : Mentions(recording[k]) \subseteq Entities
  BY <1>1, MentionsAreEntities
<1>3. ~poisoned => \A k \in DOMAIN recording : \A e \in Mentions(recording[k]) : map[e] = e
  BY DEF RunInv, RecordedCanonical
<1>4. ~poisoned' => \A k \in DOMAIN recording' :
                      \A e \in Mentions(recording'[k]) : map'[e] = e
  BY <1>2, <1>3
<1>5. QED
  BY <1>4 DEF RecordedCanonical, Mentions, Target

LEMMA RunDeclareVariable ==
  ASSUME RunInv, DeclareVariable, UNCHANGED <<graphVars, hold>>
  PROVE  RunInv'
<1>1. /\ UNCHANGED <<phase, temps, recording, plain, start, poisoned, moved>>
      /\ phase = "record" /\ live' = live \cup {Free}
      /\ \/ UNCHANGED <<cipher, blocks, map>>
         \/ /\ cipher' = [cipher EXCEPT ![Free] = Len(blocks) + 1]
            /\ blocks' = Append(blocks, Encrypted(Free))
            /\ map' = Tracked(map, {Free})
  BY DEF DeclareVariable, Declaring, Executing
<1>2. PICK t : t = Free /\ t \in Names \ live /\ t \notin Callers /\ t \in Entities
  BY FreeName DEF DeclareVariable
<1> DEFINE k == Len(temps)
<1>3. PICK alive : alive = live \cup {t}
  OBVIOUS
<1>4. /\ k \in Nat /\ k <= MaxTemps /\ Registered(map, alive, k)
      /\ alive \subseteq Names /\ live' = alive
  <2>1. Registered(map, live, k)
    BY DEF RunInv
  <2>2. Registered(map, live \cup {t}, k)
    BY <2>1, RegisteredWithMore
  <2>3. QED
    BY <1>1, <1>2, <1>3, <2>2, UsableNames
<1>5. /\ Registered(map', alive, k)
      /\ \A e \in Entities : map[e] = e => map'[e] = e
  <2>1. CASE map' = map
    BY <1>4, <2>1
  <2>2. CASE map' = Tracked(map, {t})
    <3>1. PICK S : S = {t}
      OBVIOUS
    <3> HIDE DEF k
    <3>2. S \subseteq alive \cup 1..k /\ (k + 1)..k \subseteq S
      BY <1>3, <1>4, <3>1
    <3>3. WellTracked(map, Tracked(map, S), S, alive, k, k)
      BY <1>4, <3>2, TrackedKeeps
    <3>4. QED
      BY <2>2, <3>1, <3>3 DEF WellTracked
  <2>3. QED
    BY <1>1, <1>2, <2>1, <2>2
<1>6. RecordedTyped'
  BY <1>1, <1>2, <1>3, <1>4 DEF RecordedTyped, RunInv
<1>7. Registered(map, live, Len(temps))'
  BY <1>1, <1>4, <1>5
<1>8. RecordedCanonical'
  BY <1>1, <1>5, SameRecording
<1>9. /\ StoreTyped'
      /\ \A c \in Callers : cipher'[c] = cipher[c] /\ plain'[c] = plain[c]
      /\ \A b \in DOMAIN blocks : b \in DOMAIN blocks' /\ blocks'[b] = blocks[b]
  BY <1>1, <1>2, MadeApart DEF Encrypted
<1>10. Untouched'
  BY <1>1, <1>2, <1>9, UntouchedStill
<1>11. Staged'
  BY <1>1, StagedStill
<1>12. QED
  BY <1>6, <1>7, <1>8, <1>9, <1>10, <1>11 DEF RunInv

-----------------------------------------------------------------------------
(* Destruction.                                                             *)

LEMMA RunDestroyed ==
  ASSUME RunInv, NEW S, S \subseteq Names, Destroyed(S),
         phase = "record", phase' \in {"record", "optimize", "throw"},
         UNCHANGED <<temps, recording, blocks, start, graphVars, hold>>
  PROVE  RunInv'
<1>1. /\ poisoned' = (poisoned \/ \E n \in S : map[n] = n)
      /\ map' = Forgotten(map, S)
      /\ live' = live \ S /\ moved' = moved \ S
      /\ cipher' = [e \in Entities |-> IF e \in S THEN 0 ELSE cipher[e]]
      /\ plain' = [e \in Entities |-> IF e \in S THEN <<e>> ELSE plain[e]]
  BY DEF Destroyed, Forgotten
<1>2. WellForgotten(map, map', S, live, Len(temps))
  <2> DEFINE k == Len(temps)
  <2>1. k \in Nat /\ k <= MaxTemps /\ live \subseteq Names /\ Registered(map, live, k)
    BY UsableNames DEF RunInv
  <2> HIDE DEF k
  <2>2. WellForgotten(map, Forgotten(map, S), S, live, k)
    BY <2>1, ForgottenKeeps
  <2>3. QED
    BY <1>1, <2>2 DEF k
<1>3. RecordedTyped'
  BY <1>1 DEF RunInv, RecordedTyped
<1>4. Registered(map, live, Len(temps))'
  BY <1>1, <1>2 DEF WellForgotten
<1>5. RecordedCanonical'
  <2>1. recording \in Seq(Recordable)
    BY DEF RunInv, RecordedTyped
  <2>2. \A k \in DOMAIN recording : Mentions(recording[k]) \subseteq Entities
    BY <2>1, MentionsAreEntities
  <2>3. ~poisoned => \A k \in DOMAIN recording : \A e \in Mentions(recording[k]) : map[e] = e
    BY DEF RunInv, RecordedCanonical
  <2>4. ~poisoned' => ~poisoned /\ \A e \in Entities : map[e] = e => map'[e] = e
    BY <1>1, <1>2 DEF WellForgotten
  <2>5. ~poisoned' => \A k \in DOMAIN recording' :
                        \A e \in Mentions(recording'[k]) : map'[e] = e
    BY <2>2, <2>3, <2>4
  <2>6. QED
    BY <2>5 DEF RecordedCanonical, Mentions, Target
<1>6. StoreTyped'
  <2>1. StoreTyped
    BY DEF RunInv
  <2>2. /\ cipher' \in [Entities -> 0..Len(blocks)] /\ DOMAIN plain' = Entities
    <3>1. blocks \in Seq(Range(blocks)) /\ cipher \in [Entities -> 0..Len(blocks)]
      BY <2>1 DEF StoreTyped
    <3>2. Len(blocks) \in Nat
      BY <3>1
    <3>3. QED
      BY <1>1, <3>1, <3>2
  <2>3. QED
    BY <2>1, <2>2 DEF StoreTyped
<1>7. Untouched'
  <2>1. \A c \in (live' \cap Callers) \ moved' :
          cipher'[c] = cipher[c] /\ plain'[c] = plain[c]
    BY <1>1, EntityFacts
  <2>2. (live' \cap Callers) \ moved' \subseteq (live \cap Callers) \ moved
    BY <1>1
  <2>3. QED
    BY <2>1, <2>2, UntouchedStill
<1>8. Staged'
  BY StagedStill
<1>9. QED
  BY <1>3, <1>4, <1>5, <1>6, <1>7, <1>8 DEF RunInv

LEMMA RunDie ==
  ASSUME RunInv, Die, UNCHANGED <<graphVars, hold>>
  PROVE  RunInv'
<1>1. PICK n \in live : Destroyed({n})
  BY DEF Die
<1>2. PICK S : S = {n}
  OBVIOUS
<1>3. S \subseteq Names /\ Destroyed(S)
  BY <1>1, <1>2, UsableNames
<1>4. UNCHANGED <<phase, temps, recording, blocks, start>> /\ phase = "record"
  BY DEF Die, Executing
<1>5. QED
  BY <1>3, <1>4, RunDestroyed

LEMMA RunEndLambda ==
  ASSUME RunInv, EndLambda, UNCHANGED <<graphVars, hold>>
  PROVE  RunInv'
<1>1. PICK S : S = live \cap Locals
  OBVIOUS
<1>2. S \subseteq Names /\ Destroyed(S)
  BY <1>1, UsableNames DEF EndLambda
<1>3. /\ UNCHANGED <<temps, recording, blocks, start>> /\ phase = "record"
      /\ phase' \in {"optimize", "throw"}
  BY DEF EndLambda
<1>4. QED
  BY <1>2, <1>3, RunDestroyed

-----------------------------------------------------------------------------
(* Copies and moves.                                                        *)

LEMMA NamedAgain ==
  ASSUME RunInv, Declaring, NEW source \in DOMAIN temps,
         map' = [map EXCEPT ![Free] = source] \/ map' = map,
         live' = live \cup {Free}, temps' = temps
  PROVE  /\ Registered(map, live, Len(temps))'
         /\ \A e \in Entities : map[e] = e => map'[e] = e
<1>1. PICK t : t = Free /\ t \in Names \ live
  BY FreeName
<1> DEFINE k == Len(temps)
<1>2. /\ k \in Nat /\ k <= MaxTemps /\ live \subseteq Names
      /\ Registered(map, live, k) /\ source \in 1..k
  BY UsableNames DEF RunInv
<1>3. CASE map' = map
  <2>1. Registered(map, live \cup {t}, k)
    BY <1>2, RegisteredWithMore
  <2>2. QED
    BY <1>1, <1>3, <2>1
<1>4. CASE map' = Collapsed(map, t, source)
  <2> HIDE DEF k
  <2>1. WellCollapsed(map, Collapsed(map, t, source), live \cup {t}, k)
    BY <1>1, <1>2, CollapsedKeeps
  <2>2. QED
    BY <1>1, <1>4, <2>1 DEF WellCollapsed, k
<1>5. QED
  BY <1>1, <1>3, <1>4 DEF Collapsed

LEMMA RunDeclareCopy ==
  ASSUME RunInv, DeclareCopy, UNCHANGED <<graphVars, hold>>
  PROVE  RunInv'
<1>1. PICK y \in Usable :
        LET source == Canonical(map, y) IN
          IF SharedOwned(source)
            THEN /\ map' = [map EXCEPT ![Free] = source]
                 /\ live' = live \cup {Free}
                 /\ UNCHANGED <<phase, poisoned, moved, cipher, plain>>
            ELSE phase' = "throw" /\ Destroyed(live \cap Locals)
  BY DEF DeclareCopy
<1>2. UNCHANGED <<temps, recording, blocks, start>> /\ phase = "record" /\ Declaring
  BY DEF DeclareCopy, Declaring, Executing
<1>3. PICK source : source = Canonical(map, y)
  OBVIOUS
<1>4. CASE SharedOwned(source)
  <2>1. /\ map' = [map EXCEPT ![Free] = source] /\ live' = live \cup {Free}
        /\ UNCHANGED <<phase, poisoned, moved, cipher, plain>>
    BY <1>1, <1>3, <1>4
  <2>2. source \in DOMAIN temps
    BY <1>4 DEF SharedOwned
  <2>3. /\ Registered(map, live, Len(temps))'
        /\ \A e \in Entities : map[e] = e => map'[e] = e
    BY <1>2, <2>1, <2>2, NamedAgain
  <2>4. RecordedTyped'
    BY <1>2, <2>1, FreeName DEF RunInv, RecordedTyped
  <2>5. RecordedCanonical'
    BY <1>2, <2>1, <2>3, SameRecording
  <2>6. /\ StoreTyped'
        /\ \A b \in DOMAIN blocks : b \in DOMAIN blocks' /\ blocks'[b] = blocks[b]
    BY <1>2, <2>1, StoreStill DEF RunInv, store
  <2>7. Untouched'
    <3>1. (live' \cap Callers) \ moved' \subseteq (live \cap Callers) \ moved
      BY <1>2, <2>1, FreeName
    <3>2. QED
      BY <1>2, <2>1, <2>6, <3>1, UntouchedStill
  <2>8. Staged'
    BY <1>2, <2>1, StagedStill
  <2>9. QED
    BY <2>3, <2>4, <2>5, <2>6, <2>7, <2>8 DEF RunInv
<1>5. CASE ~SharedOwned(source)
  <2>1. phase' = "throw" /\ Destroyed(live \cap Locals)
    BY <1>1, <1>3, <1>5
  <2>2. PICK S : S = live \cap Locals
    OBVIOUS
  <2>3. S \subseteq Names /\ Destroyed(S)
    BY <2>1, <2>2, UsableNames
  <2>4. QED
    BY <1>2, <2>1, <2>3, RunDestroyed
<1>6. QED
  BY <1>4, <1>5

LEMMA RunDeclareMoved ==
  ASSUME RunInv, DeclareMoved, UNCHANGED <<graphVars, hold>>
  PROVE  RunInv'
<1>1. PICK y \in Usable :
        LET source == Canonical(map, y) IN
          /\ IF SharedOwned(source)
               THEN map' = [map EXCEPT ![Free] = source] /\ UNCHANGED poisoned
               ELSE poisoned' = TRUE /\ UNCHANGED map
          /\ cipher' = [cipher EXCEPT ![Free] = cipher[y], ![y] = 0]
          /\ plain' = [plain EXCEPT ![Free] = plain[y], ![y] = <<Nothing>>]
          /\ moved' = moved \cup {y}
  BY DEF DeclareMoved
<1>2. /\ UNCHANGED <<phase, temps, recording, blocks, start>>
      /\ phase = "record" /\ Declaring /\ live' = live \cup {Free}
  BY DEF DeclareMoved, Declaring, Executing
<1>3. /\ Registered(map, live, Len(temps))' /\ RecordedCanonical'
  <2>1. PICK source : source = Canonical(map, y)
    OBVIOUS
  <2>2. CASE SharedOwned(source)
    <3>1. /\ map' = [map EXCEPT ![Free] = source] /\ UNCHANGED poisoned
          /\ source \in DOMAIN temps
      BY <1>1, <2>1, <2>2 DEF SharedOwned
    <3>2. /\ Registered(map, live, Len(temps))'
          /\ \A e \in Entities : map[e] = e => map'[e] = e
      BY <1>2, <3>1, NamedAgain
    <3>3. QED
      BY <1>2, <3>1, <3>2, SameRecording
  <2>3. CASE ~SharedOwned(source)
    <3>1. poisoned' = TRUE /\ map' = map
      BY <1>1, <2>1, <2>3
    <3>2. Registered(map, live, Len(temps))
      BY DEF RunInv
    <3>3. Registered(map, live \cup {Free}, Len(temps))
      BY <3>2, RegisteredWithMore
    <3>4. QED
      BY <1>2, <3>1, <3>3 DEF RecordedCanonical
  <2>4. QED
    BY <2>2, <2>3
<1>4. /\ cipher \in [Entities -> 0..Len(blocks)] /\ DOMAIN plain = Entities
      /\ Len(blocks) \in Nat
  <2>1. blocks \in Seq(Range(blocks))
    BY DEF RunInv, StoreTyped
  <2>2. QED
    BY <2>1 DEF RunInv, StoreTyped
<1>5. y \in live /\ y \in Entities /\ live \subseteq Names /\ Free \in Entities
      /\ Free \notin Callers /\ Free \in Names
  BY <1>2, UsableNames, FreeName
<1>6. RecordedTyped'
  BY <1>1, <1>2, <1>5 DEF RunInv, RecordedTyped
<1>7. cipher' \in [Entities -> 0..Len(blocks)] /\ DOMAIN plain' = Entities
  BY <1>1, <1>4, <1>5
<1>8. StoreTyped'
  BY <1>2, <1>7 DEF RunInv, StoreTyped
<1>9. Untouched'
  <2>1. (live' \cap Callers) \ moved' \subseteq (live \cap Callers) \ moved
    BY <1>1, <1>2, <1>5
  <2>2. \A c \in (live' \cap Callers) \ moved' : c # y /\ c # Free /\ c \in Entities
    BY <1>1, <1>5, EntityFacts
  <2>3. \A c \in (live' \cap Callers) \ moved' : cipher'[c] = cipher[c] /\ plain'[c] = plain[c]
    BY <1>1, <1>4, <2>2
  <2>4. QED
    BY <1>2, <2>1, <2>3, UntouchedStill
<1>10. Staged'
  BY <1>2, StagedStill
<1>11. QED
  BY <1>3, <1>6, <1>8, <1>9, <1>10 DEF RunInv

LEMMA RunRecord ==
  ASSUME RunInv, Record
  PROVE  RunInv'
<1>1. UNCHANGED <<graphVars, hold>>
  BY DEF Record
<1>2. CASE Statement
  BY <1>1, <1>2, RunAssignResult, RunAssignCopy, RunAssignConstant, RunDeclareResult,
     RunDeclareVariable, RunDeclareCopy, RunDeclareMoved, RunDie DEF Statement
<1>3. CASE EndLambda
  BY <1>1, <1>3, RunEndLambda
<1>4. QED
  BY <1>2, <1>3 DEF Record

-----------------------------------------------------------------------------
(* After the lambda: what it left stays until endRun.                       *)

LEMMA Kept ==
  ASSUME RunInv, UNCHANGED <<temps, recording, recordingVars>>,
         StoreTyped', Untouched', Staged'
  PROVE  RunInv'
<1>1. UNCHANGED <<start, map, poisoned, live, moved>>
  BY DEF recordingVars, userVars
<1>2. RecordedTyped' /\ Registered(map, live, Len(temps))'
  BY <1>1 DEF RunInv, RecordedTyped
<1>3. RecordedCanonical'
  BY <1>1 DEF RunInv, RecordedCanonical, Mentions, Target
<1>4. QED
  BY <1>2, <1>3 DEF RunInv

LEMMA KeptWithStore ==
  ASSUME RunInv, UNCHANGED <<temps, recording, recordingVars, store>>,
         phase' \in {"return", "ok"} \/ phase \notin {"return", "ok"}, Staged'
  PROVE  RunInv'
<1>1. UNCHANGED <<start, live, moved, plain, cipher, blocks>>
  BY DEF recordingVars, userVars, store
<1>2. StoreTyped'
  BY StoreStill DEF RunInv
<1>3. Untouched'
  BY <1>1 DEF RunInv, Untouched, Started
<1>4. QED
  BY <1>2, <1>3, Kept

LEMMA RunOptimize ==
  ASSUME RunInv, Optimize
  PROVE  RunInv'
<1>1. /\ phase = "optimize" /\ UNCHANGED <<temps, recording, recordingVars, store>>
      /\ UNCHANGED <<poisoned, start, graph, next, stack, code, inputs, bindings, hold>>
      /\ phase' \in {"throw", "return", "build"}
      /\ phase' = "build" => ~poisoned
  BY DEF Optimize, recordingVars, graphVars, lowering
<1>2. /\ graph = EmptyGraph /\ next \in Nat \ {0} /\ stack = << >> /\ code = << >>
      /\ inputs = << >> /\ bindings = << >> /\ DOMAIN hold \subseteq Nat
  BY <1>1 DEF RunInv, Staged
<1>3. phase' = "build" => GraphIn(graph)'
  <2>1. /\ DOMAIN EmptyGraph = {"nodes", "of", "roots"} /\ EmptyGraph.nodes = << >>
        /\ EmptyGraph.of = [e \in Entities |-> 0] /\ EmptyGraph.roots = << >>
    BY DEF EmptyGraph, NoNode
  <2>2. /\ DOMAIN graph' = {"nodes", "of", "roots"} /\ graph'.nodes = << >>
        /\ graph'.of = [e \in Entities |-> 0] /\ graph'.roots = << >>
    BY <1>1, <1>2, <2>1
  <2>3. DOMAIN graph'.nodes = {} /\ Len(graph'.nodes) = 0
    BY <2>2
  <2>4. graph'.nodes \in Seq(Range(graph'.nodes)) /\ graph'.roots \in Seq(DOMAIN graph'.nodes)
    BY <2>2
  <2>5. graph'.of \in [Entities -> 0..Len(graph'.nodes)]
    BY <2>2, <2>3
  <2>6. QED
    BY <2>2, <2>3, <2>4, <2>5 DEF GraphIn
<1>4. Staged'
  BY <1>1, <1>2, <1>3 DEF Staged, Phases, Translating
<1>5. QED
  BY <1>1, <1>4, KeptWithStore

-----------------------------------------------------------------------------
(* Building the graph.                                                      *)

LEMMA LongerSequence ==
  ASSUME NEW S, NEW T, S \subseteq T, NEW s \in Seq(S)
  PROVE  s \in Seq(T)
OBVIOUS

LEMMA NodeAdded ==
  ASSUME NEW g, GraphIn(g), NEW node, NodeIn(Len(g.nodes) + 1, node),
         NEW h, DOMAIN h = {"nodes", "of", "roots"}, h.nodes = Append(g.nodes, node),
         h.of \in [Entities -> 0..(Len(g.nodes) + 1)],
         h.roots \in Seq(1..(Len(g.nodes) + 1))
  PROVE  GraphIn(h) /\ Len(h.nodes) = Len(g.nodes) + 1 /\ Len(g.nodes) \in Nat
<1> DEFINE n == Len(g.nodes)
<1>1. PICK o : o = g.nodes
  OBVIOUS
<1>2. PICK p : p = Append(o, node)
  OBVIOUS
<1>3. o \in Seq(Range(o)) /\ \A k \in DOMAIN o : NodeIn(k, o[k])
  BY <1>1 DEF GraphIn
<1>4. /\ p \in Seq(Range(p)) /\ Len(p) = Len(o) + 1 /\ p[Len(o) + 1] = node
      /\ \A k \in 1..Len(o) : p[k] = o[k]
      /\ Len(o) \in Nat /\ DOMAIN o = 1..Len(o) /\ DOMAIN p = 1..(Len(o) + 1)
  BY <1>2, <1>3, SequenceGrows
<1>5. h.nodes = p /\ n = Len(o)
  BY <1>1, <1>2
<1>6. \A k \in DOMAIN p : NodeIn(k, p[k])
  <2> TAKE k \in DOMAIN p
  <2>1. CASE k \in 1..Len(o)
    BY <1>3, <1>4, <2>1
  <2>2. CASE k = Len(o) + 1
    BY <1>1, <1>4, <2>2
  <2>3. QED
    BY <1>4, <2>1, <2>2
<1>7. QED
  BY <1>4, <1>5, <1>6 DEF GraphIn

(* What a later stage of the graph keeps of an earlier one.                 *)
Grown(g, h) ==
  /\ GraphIn(h)
  /\ Len(g.nodes) \in Nat /\ Len(h.nodes) \in Nat /\ Len(g.nodes) <= Len(h.nodes)
  /\ \A f \in Entities : g.of[f] # NoNode => h.of[f] = g.of[f]

LEMMA WithLeafKeeps ==
  ASSUME NEW g, GraphIn(g), NEW e \in Entities
  PROVE  /\ Grown(g, WithLeaf(g, e))
         /\ WithLeaf(g, e).of = g.of
         /\ Len(WithLeaf(g, e).nodes) = Len(g.nodes) + 1
         /\ WithLeaf(g, e).roots = g.roots /\ WithLeaf(g, e).nodes = Append(g.nodes, Leaf(e))
<1> DEFINE n == Len(g.nodes)
<1>1. PICK h : h = WithLeaf(g, e)
  OBVIOUS
<1>2. PICK node : node = Leaf(e)
  OBVIOUS
<1>3. /\ DOMAIN g = {"nodes", "of", "roots"} /\ g.nodes \in Seq(Range(g.nodes))
      /\ g.of \in [Entities -> 0..n] /\ g.roots \in Seq(DOMAIN g.nodes)
  BY DEF GraphIn
<1>4. n \in Nat /\ DOMAIN g.nodes = 1..n
  BY <1>3
<1>5. /\ DOMAIN h = {"nodes", "of", "roots"} /\ h.nodes = Append(g.nodes, node)
      /\ h.of = g.of /\ h.roots = g.roots
  BY <1>1, <1>2, <1>3 DEF WithLeaf
<1>6. NodeIn(n + 1, node)
  BY <1>2 DEF NodeIn, Leaf, Node
<1>7. h.of \in [Entities -> 0..(n + 1)] /\ h.roots \in Seq(1..(n + 1))
  <2>1. 1..n \subseteq 1..(n + 1) /\ 0..n \subseteq 0..(n + 1)
    BY <1>4
  <2>2. h.roots \in Seq(1..n)
    BY <1>3, <1>4, <1>5
  <2>3. h.roots \in Seq(1..(n + 1))
    BY <2>1, <2>2, LongerSequence
  <2>4. h.of \in [Entities -> 0..(n + 1)]
    BY <1>3, <1>5, <2>1
  <2>5. QED
    BY <2>3, <2>4
<1>8. GraphIn(h) /\ Len(h.nodes) = n + 1
  BY <1>5, <1>6, <1>7, NodeAdded
<1>9. Grown(g, h)
  BY <1>4, <1>5, <1>8 DEF Grown
<1>10. QED
  BY <1>1, <1>2, <1>5, <1>8, <1>9

LEMMA ReadingKeeps ==
  ASSUME NEW g, GraphIn(g), NEW e \in Entities
  PROVE  /\ Grown(g, Reading(g, e))
         /\ Reading(g, e).of[e] \in 1..Len(Reading(g, e).nodes)
<1> DEFINE n == Len(g.nodes)
<1>1. /\ DOMAIN g = {"nodes", "of", "roots"} /\ g.nodes \in Seq(Range(g.nodes))
      /\ g.of \in [Entities -> 0..n] /\ g.roots \in Seq(DOMAIN g.nodes)
  BY DEF GraphIn
<1>2. n \in Nat /\ DOMAIN g.nodes = 1..n
  BY <1>1
<1>3. CASE g.of[e] # NoNode
  <2>1. Reading(g, e) = g
    BY <1>3 DEF Reading
  <2>2. g.of[e] \in 1..n
    BY <1>1, <1>2, <1>3 DEF NoNode
  <2>3. QED
    BY <1>2, <2>1, <2>2 DEF Grown
<1>4. CASE g.of[e] = NoNode
  <2>1. PICK w : w = WithLeaf(g, e)
    OBVIOUS
  <2>2. /\ GraphIn(w) /\ w.of = g.of /\ Len(w.nodes) = n + 1 /\ w.roots = g.roots
        /\ w.nodes = Append(g.nodes, Leaf(e))
    BY <2>1, WithLeafKeeps DEF Grown
  <2>3. PICK h : h = [w EXCEPT !.of[e] = n + 1]
    OBVIOUS
  <2>4. Reading(g, e) = h
    BY <1>4, <2>1, <2>3 DEF Reading
  <2>5. /\ DOMAIN w = {"nodes", "of", "roots"} /\ w.nodes \in Seq(Range(w.nodes))
        /\ \A k \in DOMAIN w.nodes : NodeIn(k, w.nodes[k])
        /\ w.of \in [Entities -> 0..(n + 1)] /\ w.roots \in Seq(DOMAIN w.nodes)
    BY <2>2 DEF GraphIn
  <2>6. /\ DOMAIN h = {"nodes", "of", "roots"} /\ h.nodes = w.nodes /\ h.roots = w.roots
        /\ h.of = [w.of EXCEPT ![e] = n + 1]
    BY <2>3, <2>5
  <2>7. /\ h.of \in [Entities -> 0..(n + 1)] /\ h.of[e] = n + 1
        /\ \A f \in Entities : f # e => h.of[f] = g.of[f]
    BY <1>2, <2>2, <2>5, <2>6
  <2>8. GraphIn(h)
    BY <2>2, <2>5, <2>6, <2>7 DEF GraphIn
  <2>9. Grown(g, h)
    BY <1>2, <1>4, <2>2, <2>6, <2>7, <2>8 DEF Grown
  <2>10. h.of[e] \in 1..Len(h.nodes)
    BY <1>2, <2>2, <2>6, <2>7
  <2>11. QED
    BY <2>4, <2>9, <2>10
<1>5. QED
  BY <1>3, <1>4

(* The node an operation becomes.                                           *)
LEMMA BuiltKeeps ==
  ASSUME NEW g, GraphIn(g), NEW a \in 1..Len(g.nodes), NEW b \in 1..Len(g.nodes),
         NEW k \in DOMAIN recording, NEW e \in Entities,
         NEW h, h = [g EXCEPT !.nodes = Append(@, Node(k, e, <<a, b>>)),
                              !.of[e] = Len(g.nodes) + 1,
                              !.roots = Append(@, Len(g.nodes) + 1)]
  PROVE  GraphIn(h)
<1> DEFINE n == Len(g.nodes)
<1>1. /\ DOMAIN g = {"nodes", "of", "roots"} /\ g.nodes \in Seq(Range(g.nodes))
      /\ g.of \in [Entities -> 0..n] /\ g.roots \in Seq(DOMAIN g.nodes)
  BY DEF GraphIn
<1>2. n \in Nat /\ DOMAIN g.nodes = 1..n
  BY <1>1
<1>3. PICK node : node = Node(k, e, <<a, b>>)
  OBVIOUS
<1>4. /\ DOMAIN h = {"nodes", "of", "roots"} /\ h.nodes = Append(g.nodes, node)
      /\ h.of = [g.of EXCEPT ![e] = n + 1] /\ h.roots = Append(g.roots, n + 1)
  BY <1>1, <1>3
<1>5. NodeIn(n + 1, node)
  <2>1. node.op = k /\ node.entity = e /\ node.children = <<a, b>>
    BY <1>3 DEF Node
  <2>2. DOMAIN <<a, b>> = {1, 2} /\ <<a, b>>[1] = a /\ <<a, b>>[2] = b
    OBVIOUS
  <2>3. a \in 1..((n + 1) - 1) /\ b \in 1..((n + 1) - 1)
    BY <1>2
  <2>4. QED
    BY <2>1, <2>2, <2>3 DEF NodeIn
<1>6. h.of \in [Entities -> 0..(n + 1)]
  BY <1>1, <1>2, <1>4
<1>7. h.roots \in Seq(1..(n + 1))
  <2>1. 1..n \subseteq 1..(n + 1) /\ n + 1 \in 1..(n + 1)
    BY <1>2
  <2>2. g.roots \in Seq(1..(n + 1))
    BY <1>1, <1>2, <2>1, LongerSequence
  <2>3. QED
    BY <1>4, <2>1, <2>2
<1>8. QED
  BY <1>4, <1>5, <1>6, <1>7, NodeAdded

(* Both operands have a node before their operation gets one.               *)
LEMMA OperandsKeep ==
  ASSUME NEW g, GraphIn(g), NEW x \in Entities, NEW y \in Entities, NEW scalar \in BOOLEAN,
         NEW l, l = Reading(g, x),
         NEW r, r = IF scalar THEN WithLeaf(l, y) ELSE Reading(l, y)
  PROVE  /\ GraphIn(r) /\ l.of[x] \in 1..Len(r.nodes)
         /\ (IF scalar THEN Len(r.nodes) ELSE r.of[y]) \in 1..Len(r.nodes)
<1>1. GraphIn(l) /\ l.of[x] \in 1..Len(l.nodes)
  BY ReadingKeeps DEF Grown
<1>2. CASE scalar
  <2>1. r = WithLeaf(l, y)
    BY <1>2
  <2>2. Grown(l, r) /\ Len(r.nodes) = Len(l.nodes) + 1
    BY <1>1, <2>1, WithLeafKeeps
  <2>3. QED
    BY <1>1, <1>2, <2>2 DEF Grown
<1>3. CASE ~scalar
  <2>1. r = Reading(l, y)
    BY <1>3
  <2>2. Grown(l, r) /\ r.of[y] \in 1..Len(r.nodes)
    BY <1>1, <2>1, ReadingKeeps
  <2>3. QED
    BY <1>1, <1>3, <2>2 DEF Grown
<1>4. QED
  BY <1>2, <1>3

LEMMA RunBuildOperation ==
  ASSUME RunInv, BuildOperation, UNCHANGED <<recordingVars, hold>>
  PROVE  RunInv'
<1>1. PICK op : op = recording[next]
  OBVIOUS
<1>2. PICK scalar \in BOOLEAN : scalar = IsScalar(op.operand2)
  BY DEF IsScalar
<1>3. PICK l : l = Reading(graph, op.operand1)
  OBVIOUS
<1>4. PICK r : r = IF scalar THEN WithLeaf(l, op.operand2) ELSE Reading(l, op.operand2)
  OBVIOUS
<1>5. PICK a, b : a = l.of[op.operand1]
                  /\ b = IF scalar THEN Len(r.nodes) ELSE r.of[op.operand2]
  OBVIOUS
<1>6. /\ phase = "build" /\ next <= Len(recording) /\ next' = next + 1
      /\ UNCHANGED <<phase, temps, recording, store, stack, ids, code, inputs, bindings>>
  BY DEF BuildOperation, lowering
<1>7. graph' = [r EXCEPT !.nodes = Append(@, Node(next, Target(op), <<a, b>>)),
                         !.of[Target(op)] = Len(r.nodes) + 1,
                         !.roots = Append(@, Len(r.nodes) + 1)]
  BY <1>1, <1>2, <1>3, <1>4, <1>5 DEF BuildOperation
<1>8. /\ GraphIn(graph) /\ ~poisoned /\ next \in Nat \ {0} /\ DOMAIN hold \subseteq Nat
      /\ stack = << >> /\ code = << >> /\ inputs = << >> /\ bindings = << >>
  BY <1>6 DEF RunInv, Staged, Translating
<1>9. op \in Recordable /\ next \in DOMAIN recording
  <2>1. recording \in Seq(Recordable)
    BY DEF RunInv, RecordedTyped
  <2>2. QED
    BY <1>1, <1>6, <1>8, <2>1
<1>10. op.operand1 \in Entities /\ op.operand2 \in Entities /\ Target(op) \in Entities
  BY <1>9, MentionsAreEntities DEF Mentions
<1>11. GraphIn(r) /\ a \in 1..Len(r.nodes) /\ b \in 1..Len(r.nodes)
  <2>1. PICK x \in Entities, y \in Entities : x = op.operand1 /\ y = op.operand2
    BY <1>10
  <2>2. /\ GraphIn(r) /\ l.of[x] \in 1..Len(r.nodes)
        /\ (IF scalar THEN Len(r.nodes) ELSE r.of[y]) \in 1..Len(r.nodes)
    <3>1. l = Reading(graph, x) /\ r = IF scalar THEN WithLeaf(l, y) ELSE Reading(l, y)
      BY <1>3, <1>4, <2>1
    <3>2. QED
      BY <1>8, <3>1, OperandsKeep
  <2>3. QED
    BY <1>5, <2>1, <2>2
<1>12. PICK h : h = graph'
  OBVIOUS
<1>13. GraphIn(h)
  <2>1. PICK e \in Entities : e = Target(op)
    BY <1>10
  <2>2. h = [r EXCEPT !.nodes = Append(@, Node(next, e, <<a, b>>)),
                      !.of[e] = Len(r.nodes) + 1,
                      !.roots = Append(@, Len(r.nodes) + 1)]
    BY <1>7, <1>12, <2>1
  <2>3. QED
    BY <1>9, <1>11, <2>2, BuiltKeeps
<1>14. GraphIn(graph)'
  BY <1>6, <1>12, <1>13 DEF GraphIn, NodeIn
<1>15. Staged'
  <2>1. UNCHANGED <<poisoned, hold>> /\ next' \in Nat \ {0}
    BY <1>6, <1>8 DEF recordingVars
  <2>2. QED
    BY <1>6, <1>8, <1>14, <2>1 DEF Staged, Phases, Translating
<1>16. QED
  BY <1>6, <1>15, KeptWithStore

-----------------------------------------------------------------------------
(* The walk.                                                                *)

LEMMA RunGraphBuilt ==
  ASSUME RunInv, NEW walk, walk = (IF start.runtime THEN "lower" ELSE "evaluate"),
         GraphBuilt(walk), UNCHANGED <<recordingVars, hold>>
  PROVE  RunInv'
<1>1. /\ phase = "build" /\ phase' = walk /\ next' = 1
      /\ ids' = [n \in DOMAIN graph.nodes |-> 0]
      /\ UNCHANGED <<temps, recording, store, graph, stack, code, inputs, bindings>>
      /\ UNCHANGED <<poisoned, start, hold>>
  BY DEF GraphBuilt, recordingVars
<1>2. /\ GraphIn(graph) /\ ~poisoned /\ DOMAIN hold \subseteq Nat
      /\ stack = << >> /\ code = << >> /\ inputs = << >> /\ bindings = << >>
  BY <1>1 DEF RunInv, Staged, Translating
<1>3. GraphIn(graph)'
  BY <1>1, <1>2 DEF GraphIn, NodeIn
<1>4. Lowering'
  <2>1. /\ stack' = << >> /\ code' = << >> /\ inputs' = << >> /\ bindings' = << >>
        /\ DOMAIN code' = {} /\ DOMAIN inputs' = {} /\ Len(code') = 0 /\ Len(inputs') = 0
    BY <1>1, <1>2
  <2>2. NextId' = 1 /\ InputIds' = {} /\ Results(Len(code))' = {}
    BY <2>1 DEF NextId, InputIds, Results
  <2>3. ids' \in [DOMAIN graph'.nodes -> 0..(NextId' - 1)]
    BY <1>1, <2>2
  <2>4. /\ stack' \in Seq(DOMAIN graph'.nodes)
        /\ bindings' \in Seq([id : 1..(NextId' - 1), entity : Entities])
    BY <2>1
  <2>5. inputs' \in Seq(Nat) /\ code' \in Seq(Range(code'))
    BY <2>1
  <2>6. Numbered'
    BY <2>1, <2>2, <2>5 DEF Numbered
  <2>7. QED
    BY <2>3, <2>4, <2>6 DEF Lowering
<1>5. Staged'
  <2>1. phase' = "evaluate" => ~start'.runtime /\ stack' \in Seq(DOMAIN graph'.nodes)
    BY <1>1, <1>4 DEF Lowering
  <2>2. phase' \in {"lower", "evaluate"}
    BY <1>1
  <2>3. QED
    BY <1>1, <1>2, <1>3, <1>4, <2>1, <2>2 DEF Staged, Phases, Translating
<1>6. QED
  BY <1>1, <1>5, KeptWithStore

LEMMA TopNode ==
  ASSUME GraphIn(graph), stack \in Seq(DOMAIN graph.nodes), stack # << >>
  PROVE  /\ Top \in DOMAIN graph.nodes /\ graph.nodes[Top].entity \in Entities
         /\ SubSeq(stack, 1, Len(stack) - 1) \in Seq(DOMAIN graph.nodes)
         /\ DOMAIN Children(Top) \subseteq {1, 2}
         /\ \A j \in DOMAIN Children(Top) : Children(Top)[j] \in DOMAIN graph.nodes
         /\ ~IsLeaf(Top) =>
              DOMAIN Children(Top) = {1, 2} /\ graph.nodes[Top].op \in DOMAIN recording
<1>1. /\ Top \in DOMAIN graph.nodes
      /\ SubSeq(stack, 1, Len(stack) - 1) \in Seq(DOMAIN graph.nodes)
  BY Popped DEF Top
<1>2. PICK n, node : n = Top /\ node = graph.nodes[n]
  OBVIOUS
<1>3. /\ NodeIn(n, node) /\ graph.nodes \in Seq(Range(graph.nodes))
  BY <1>1, <1>2 DEF GraphIn
<1>4. /\ DOMAIN graph.nodes = 1..Len(graph.nodes) /\ Len(graph.nodes) \in Nat
      /\ n \in 1..Len(graph.nodes)
  BY <1>1, <1>2, <1>3
<1>5. Children(Top) = node.children /\ (IsLeaf(Top) <=> node.op = 0)
  BY <1>2 DEF Children, IsLeaf
<1>6. CASE node.op = 0 /\ node.children = << >>
  <2>1. DOMAIN node.children = {}
    BY <1>6
  <2>2. QED
    BY <1>1, <1>2, <1>3, <1>5, <1>6, <2>1 DEF NodeIn
<1>7. CASE /\ node.op \in DOMAIN recording
           /\ DOMAIN node.children = {1, 2}
           /\ node.children[1] \in 1..(n - 1) /\ node.children[2] \in 1..(n - 1)
  <2>1. 1..(n - 1) \subseteq DOMAIN graph.nodes
    BY <1>4
  <2>2. \A j \in {1, 2} : node.children[j] \in DOMAIN graph.nodes
    BY <1>7, <2>1
  <2>3. node.entity \in Entities
    BY <1>3 DEF NodeIn
  <2>4. QED
    BY <1>1, <1>2, <1>5, <1>7, <2>2, <2>3
<1>8. QED
  BY <1>3, <1>6, <1>7 DEF NodeIn

LEMMA NumberedStill ==
  ASSUME Numbered, UNCHANGED <<code, inputs>>
  PROVE  Numbered'
<1>1. /\ InputIds' = InputIds /\ NextId' = NextId
  BY DEF InputIds, NextId
<1>2. Results(Len(code))' = Results(Len(code))
  BY DEF Results
<1>3. /\ inputs' \in Seq(Nat) /\ code' \in Seq(Range(code'))
      /\ InputIds' \cup Results(Len(code))' = 1..(NextId' - 1)
      /\ InputIds' \cap Results(Len(code))' = {}
      /\ \A k, l \in DOMAIN inputs' : inputs'[k] = inputs'[l] => k = l
      /\ \A i, j \in DOMAIN code' : code'[i].res = code'[j].res => i = j
  BY <1>1, <1>2 DEF Numbered
<1>4. \A i \in DOMAIN code' : \A j \in 1..4 :
        code'[i].args[j] \in {Unused} \cup InputIds' \cup Results(i - 1)'
  <2>1. \A i \in DOMAIN code' : Results(i - 1)' = Results(i - 1)
    BY DEF Results
  <2>2. QED
    BY <1>1, <2>1 DEF Numbered
<1>5. QED
  BY <1>3, <1>4 DEF Numbered

LEMMA LoweringStill ==
  ASSUME Lowering, UNCHANGED <<ids, code, inputs, bindings, graph>>,
         stack' \in Seq(DOMAIN graph.nodes)
  PROVE  Lowering'
<1>1. NextId' = NextId
  BY DEF NextId
<1>2. Numbered'
  BY NumberedStill DEF Lowering
<1>3. QED
  BY <1>1, <1>2 DEF Lowering

LEMMA RunVisitRoot ==
  ASSUME RunInv, VisitRoot, UNCHANGED <<recordingVars, hold>>
  PROVE  RunInv'
<1>1. /\ phase \in {"lower", "evaluate"} /\ next <= Len(graph.roots)
      /\ stack' = <<graph.roots[next]>> /\ next' = next + 1
      /\ UNCHANGED <<phase, temps, recording, store, graph, ids, code, inputs, bindings>>
      /\ UNCHANGED <<poisoned, start, hold>>
  BY DEF VisitRoot, recordingVars, lowering
<1>2. /\ GraphIn(graph) /\ ~poisoned /\ DOMAIN hold \subseteq Nat /\ next \in Nat \ {0}
      /\ phase = "lower" => Lowering
      /\ phase = "evaluate" => ~start.runtime
  BY <1>1 DEF RunInv, Staged, Translating
<1>3. graph.roots[next] \in DOMAIN graph.nodes
  BY <1>1, <1>2 DEF GraphIn
<1>4. stack' \in Seq(DOMAIN graph.nodes) /\ next' \in Nat \ {0}
  <2>1. PICK root \in DOMAIN graph.nodes : root = graph.roots[next]
    BY <1>3
  <2>2. <<root>> \in Seq(DOMAIN graph.nodes)
    BY OneElement
  <2>3. stack' \in Seq(DOMAIN graph.nodes)
    BY <1>1, <2>1, <2>2
  <2>4. QED
    BY <1>1, <1>2, <2>3
<1>5. phase = "lower" => Lowering'
  BY <1>1, <1>2, <1>4, LoweringStill
<1>6. GraphIn(graph)'
  BY <1>1, <1>2 DEF GraphIn, NodeIn
<1>7. Staged'
  BY <1>1, <1>2, <1>4, <1>5, <1>6 DEF Staged, Phases, Translating
<1>8. QED
  BY <1>1, <1>7, KeptWithStore

LEMMA RunVisitChild ==
  ASSUME RunInv, VisitChild, UNCHANGED <<recordingVars, hold>>
  PROVE  RunInv'
<1>1. PICK pending : pending = IF phase = "lower" THEN ToLower(Top) ELSE ToEvaluate(Top)
  OBVIOUS
<1>2. /\ stack # << >> /\ pending # {}
      /\ stack' = Append(stack, Children(Top)[Min(pending)])
      /\ UNCHANGED <<phase, temps, recording, store, next, graph, ids, code, inputs, bindings>>
      /\ UNCHANGED <<poisoned, start, hold>>
  BY <1>1 DEF VisitChild, recordingVars, lowering
<1>3. Staged
  BY DEF RunInv
<1>4. phase \notin {"record", "optimize", "build"}
  BY <1>2, <1>3 DEF Staged
<1>5. ASSUME phase \in {"lower", "lowered", "evaluate", "execute"}
      PROVE  /\ GraphIn(graph) /\ stack' \in Seq(DOMAIN graph.nodes)
  <2>1. GraphIn(graph) /\ stack \in Seq(DOMAIN graph.nodes)
    BY <1>3, <1>5 DEF Staged, Translating, Lowering
  <2>2. pending \subseteq DOMAIN Children(Top) /\ DOMAIN Children(Top) \subseteq {1, 2}
    BY <1>1, <1>2, <2>1, TopNode DEF ToLower, ToEvaluate
  <2>3. Min(pending) \in pending
    <3>1. \E j \in pending : \A i \in pending : j <= i
      <4>1. CASE 1 \in pending
        BY <2>2, <4>1
      <4>2. CASE 1 \notin pending
        BY <1>2, <2>2, <4>2
      <4>3. QED
        BY <4>1, <4>2
    <3>2. QED
      BY <3>1 DEF Min
  <2>4. Children(Top)[Min(pending)] \in DOMAIN graph.nodes
    BY <1>2, <2>1, <2>2, <2>3, TopNode
  <2>5. QED
    BY <1>2, <2>1, <2>4, Appended
<1>6. phase \in {"lower", "lowered", "execute"} => Lowering'
  <2>1. SUFFICES ASSUME phase \in {"lower", "lowered", "execute"} PROVE Lowering'
    OBVIOUS
  <2>2. Lowering /\ stack' \in Seq(DOMAIN graph.nodes)
    BY <1>3, <1>5, <2>1 DEF Staged
  <2>3. QED
    BY <1>2, <2>2, LoweringStill
<1>7. GraphIn(graph) => GraphIn(graph)'
  BY <1>2 DEF GraphIn, NodeIn
<1>8. InputIds' = InputIds /\ Len(blocks)' = Len(blocks)
  BY <1>2 DEF InputIds, store
<1>9. Staged'
  <2>1. UNCHANGED <<map, recording>>
    BY <1>2 DEF recordingVars
  <2>2. phase' = "evaluate" => ~start'.runtime /\ stack' \in Seq(DOMAIN graph'.nodes)
    BY <1>2, <1>3, <1>5 DEF Staged
  <2>3. QED
    BY <1>2, <1>3, <1>4, <1>6, <1>7, <1>8, <2>1, <2>2 DEF Staged, Phases, Translating
<1>10. phase' \in {"return", "ok"} \/ phase \notin {"return", "ok"}
  BY <1>2
<1>11. QED
  BY <1>2, <1>9, <1>10, KeptWithStore

-----------------------------------------------------------------------------
(* Lowering.                                                                *)

LEMMA NumbersFacts ==
  ASSUME Numbered
  PROVE  /\ NextId \in Nat \ {0} /\ NextId = Len(inputs) + Len(code) + 1
         /\ Len(inputs) \in Nat /\ Len(code) \in Nat
         /\ DOMAIN inputs = 1..Len(inputs) /\ DOMAIN code = 1..Len(code)
         /\ InputIds \subseteq 1..(NextId - 1)
         /\ Results(Len(code)) \subseteq 1..(NextId - 1)
         /\ NextId \notin InputIds /\ NextId \notin Results(Len(code))
<1>1. inputs \in Seq(Nat) /\ code \in Seq(Range(code))
  BY DEF Numbered
<1>2. /\ Len(inputs) \in Nat /\ Len(code) \in Nat
      /\ DOMAIN inputs = 1..Len(inputs) /\ DOMAIN code = 1..Len(code)
  BY <1>1
<1>3. NextId \in Nat \ {0} /\ NextId = Len(inputs) + Len(code) + 1
  BY <1>2 DEF NextId
<1>4. /\ InputIds \subseteq 1..(NextId - 1)
      /\ Results(Len(code)) \subseteq 1..(NextId - 1)
  BY DEF Numbered
<1>5. NextId \notin 1..(NextId - 1)
  BY <1>3
<1>6. QED
  BY <1>2, <1>3, <1>4, <1>5

LEMMA LowerFacts ==
  ASSUME RunInv, Ready
  PROVE  /\ phase = "lower" /\ stack # << >> /\ ToLower(Top) = {}
         /\ GraphIn(graph) /\ ~poisoned /\ DOMAIN hold \subseteq Nat /\ next \in Nat \ {0}
         /\ Lowering /\ Numbered
BY DEF RunInv, Staged, Translating, Ready, Lowering

LEMMA BoundTo ==
  ASSUME Lowering, NEW m \in Nat, NextId \in Nat, NextId - 1 <= m, NEW id \in 1..m,
         NEW top \in DOMAIN graph.nodes, graph.nodes[top].entity \in Entities, Bind(top, id)
  PROVE  /\ ids' \in [DOMAIN graph.nodes -> 0..m]
         /\ bindings' \in Seq([id : 1..m, entity : Entities])
<1>1. /\ ids' = [ids EXCEPT ![top] = id]
      /\ bindings' = Append(bindings, [id |-> id, entity |-> graph.nodes[top].entity])
  BY DEF Bind
<1>2. /\ ids \in [DOMAIN graph.nodes -> 0..(NextId - 1)]
      /\ bindings \in Seq([id : 1..(NextId - 1), entity : Entities])
  BY DEF Lowering
<1>3. 1..(NextId - 1) \subseteq 1..m /\ 0..(NextId - 1) \subseteq 0..m /\ id \in 0..m
  OBVIOUS
<1>4. ids' \in [DOMAIN graph.nodes -> 0..m]
  BY <1>1, <1>2, <1>3
<1>5. bindings' \in Seq([id : 1..m, entity : Entities])
  <2>1. PICK S, T : /\ S = [id : 1..(NextId - 1), entity : Entities]
                    /\ T = [id : 1..m, entity : Entities]
    OBVIOUS
  <2>2. S \subseteq T
    BY <1>3, <2>1
  <2>3. bindings \in Seq(T)
    <3>1. bindings \in Seq(S)
      BY <1>2, <2>1, Zenon
    <3>2. QED
      BY <2>2, <3>1, LongerSequence
  <2>4. PICK b \in T : b = [id |-> id, entity |-> graph.nodes[top].entity]
    BY <2>1
  <2>5. bindings' \in Seq(T)
    BY <1>1, <2>3, <2>4, Appended
  <2>6. QED
    BY <2>1, <2>5
<1>6. QED
  BY <1>4, <1>5

LEMMA LoweredStep ==
  ASSUME RunInv, Ready, Lowering',
         UNCHANGED <<phase, temps, recording, store, next, graph, recordingVars, hold>>
  PROVE  RunInv'
<1>1. /\ phase = "lower" /\ GraphIn(graph) /\ ~poisoned /\ DOMAIN hold \subseteq Nat
      /\ next \in Nat \ {0}
  BY LowerFacts
<1>2. GraphIn(graph)'
  BY <1>1 DEF GraphIn, NodeIn
<1>3. poisoned' = poisoned
  BY DEF recordingVars
<1>4. Staged'
  BY <1>1, <1>2, <1>3 DEF Staged, Phases, Translating
<1>5. QED
  BY <1>1, <1>4, KeptWithStore

LEMMA RunLowerLeaf ==
  ASSUME RunInv, LowerLeaf, UNCHANGED <<recordingVars, hold>>
  PROVE  RunInv'
<1> DEFINE n == Len(inputs)
<1>1. /\ Ready /\ inputs' = Append(inputs, NextId) /\ Bind(Top, NextId) /\ Return
      /\ UNCHANGED <<phase, temps, recording, store, next, graph, code>>
  BY DEF LowerLeaf
<1>2. GraphIn(graph) /\ Lowering /\ Numbered /\ stack # << >>
  BY <1>1, LowerFacts
<1>3. /\ Top \in DOMAIN graph.nodes /\ graph.nodes[Top].entity \in Entities
      /\ stack' \in Seq(DOMAIN graph.nodes)
  BY <1>1, <1>2, TopNode DEF Lowering, Return
<1>4. PICK N \in Nat \ {0} : N = NextId
  BY <1>2, NumbersFacts
<1>5. /\ N = n + Len(code) + 1 /\ n \in Nat /\ Len(code) \in Nat
      /\ DOMAIN inputs = 1..n /\ N \notin InputIds /\ N \notin Results(Len(code))
      /\ InputIds \subseteq 1..(N - 1)
  BY <1>2, <1>4, NumbersFacts
<1>6. /\ inputs' \in Seq(Nat) /\ Len(inputs') = n + 1 /\ DOMAIN inputs' = 1..(n + 1)
      /\ inputs'[n + 1] = N /\ \A k \in 1..n : inputs'[k] = inputs[k]
  <2>1. inputs \in Seq(Nat) /\ inputs' = Append(inputs, N) /\ N \in Nat
    BY <1>1, <1>2, <1>4 DEF Numbered
  <2>2. QED
    BY <2>1, Appended
<1>7. NextId' = N + 1
  BY <1>1, <1>5, <1>6 DEF NextId
<1>8. ids' \in [DOMAIN graph.nodes -> 0..N]
      /\ bindings' \in Seq([id : 1..N, entity : Entities])
  <2>1. PICK top \in DOMAIN graph.nodes :
          top = Top /\ graph.nodes[top].entity \in Entities /\ Bind(top, N)
    BY <1>1, <1>3, <1>4
  <2>2. N \in 1..N /\ NextId \in Nat /\ NextId - 1 <= N
    BY <1>4
  <2>3. QED
    BY <1>2, <2>1, <2>2, BoundTo
<1>9. InputIds' = InputIds \cup {N}
  <2>1. \A x : x \in InputIds' <=> \E k \in 1..(n + 1) : x = inputs'[k]
    BY <1>6 DEF InputIds
  <2>2. \A x : x \in InputIds <=> \E k \in 1..n : x = inputs[k]
    BY <1>5 DEF InputIds
  <2>3. 1..(n + 1) = 1..n \cup {n + 1}
    BY <1>5
  <2>4. \A x : x \in InputIds' <=> x \in InputIds \cup {N}
    BY <1>6, <2>1, <2>2, <2>3
  <2>5. QED
    BY <2>4
<1>10. \A i \in 1..Len(code) : Results(i - 1)' = Results(i - 1)
  BY <1>1 DEF Results
<1>11. Results(Len(code))' = Results(Len(code))
  BY <1>1 DEF Results
<1>12. Numbered'
  <2>1. /\ code' \in Seq(Range(code')) /\ DOMAIN code = 1..Len(code)
        /\ \A i, j \in DOMAIN code' : code'[i].res = code'[j].res => i = j
    BY <1>1, <1>2, NumbersFacts DEF Numbered
  <2>2. InputIds' \cup Results(Len(code))' = 1..(NextId' - 1)
    <3>1. InputIds \cup Results(Len(code)) = 1..(N - 1)
      BY <1>2, <1>4 DEF Numbered
    <3>2. 1..(N - 1) \cup {N} = 1..((N + 1) - 1)
      BY <1>4
    <3>3. QED
      BY <1>7, <1>9, <1>11, <3>1, <3>2
  <2>3. InputIds' \cap Results(Len(code))' = {}
    BY <1>2, <1>5, <1>9, <1>11 DEF Numbered
  <2>4. \A k, l \in DOMAIN inputs' : inputs'[k] = inputs'[l] => k = l
    <3>1. \A k, l \in 1..n : inputs[k] = inputs[l] => k = l
      BY <1>2, <1>5 DEF Numbered
    <3>2. \A k \in 1..n : inputs[k] # N
      BY <1>5 DEF InputIds
    <3>3. \A k \in 1..(n + 1) : k \in 1..n \/ k = n + 1
      BY <1>5
    <3>4. QED
      BY <1>6, <3>1, <3>2, <3>3
  <2>5. \A i \in DOMAIN code' : \A j \in 1..4 :
          code'[i].args[j] \in {Unused} \cup InputIds' \cup Results(i - 1)'
    BY <1>1, <1>2, <1>9, <1>10, <2>1 DEF Numbered
  <2>6. QED
    BY <1>6, <2>1, <2>2, <2>3, <2>4, <2>5 DEF Numbered
<1>13. Lowering'
  <2>1. NextId' - 1 = N
    BY <1>4, <1>7
  <2>2. QED
    BY <1>1, <1>3, <1>8, <1>12, <2>1 DEF Lowering
<1>14. QED
  BY <1>1, <1>13, LoweredStep

(* The children of a node that is lowered have been: their ids have been    *)
(* given out.                                                              *)
LEMMA ChildLowered ==
  ASSUME GraphIn(graph), Lowering, stack # << >>, ToLower(Top) = {}, ~IsLeaf(Top),
         NEW j \in {1, 2}, ~Folds(Top) \/ j = 1
  PROVE  ids[Children(Top)[j]] \in 1..(NextId - 1)
<1>1. DOMAIN Children(Top) = {1, 2} /\ Children(Top)[j] \in DOMAIN graph.nodes
  BY TopNode DEF Lowering
<1>2. PICK c : c = Children(Top)[j]
  OBVIOUS
<1>3. ids[c] # 0
  BY <1>1, <1>2 DEF ToLower
<1>4. ids[c] \in 0..(NextId - 1)
  BY <1>1, <1>2 DEF Lowering
<1>5. NextId \in Nat
  BY NumbersFacts DEF Lowering
<1>6. QED
  BY <1>2, <1>3, <1>4, <1>5

LEMMA RunLowerAssignment ==
  ASSUME RunInv, LowerAssignment, UNCHANGED <<recordingVars, hold>>
  PROVE  RunInv'
<1>1. /\ Ready /\ ~IsLeaf(Top) /\ Recorded(Top).type = "Assignment"
      /\ Bind(Top, ids[Children(Top)[2]]) /\ Return
      /\ UNCHANGED <<phase, temps, recording, store, next, graph, code, inputs>>
  BY DEF LowerAssignment
<1>2. GraphIn(graph) /\ Lowering /\ Numbered /\ stack # << >> /\ ToLower(Top) = {}
  BY <1>1, LowerFacts
<1>3. /\ Top \in DOMAIN graph.nodes /\ graph.nodes[Top].entity \in Entities
      /\ stack' \in Seq(DOMAIN graph.nodes)
  BY <1>1, <1>2, TopNode DEF Lowering, Return
<1>4. ~Folds(Top)
  BY <1>1 DEF Folds, Arithmetic
<1>5. ids[Children(Top)[2]] \in 1..(NextId - 1)
  BY <1>1, <1>2, <1>4, ChildLowered
<1>6. PICK m \in Nat : m = NextId - 1 /\ NextId \in Nat
  BY <1>2, NumbersFacts
<1>7. ids' \in [DOMAIN graph.nodes -> 0..m]
      /\ bindings' \in Seq([id : 1..m, entity : Entities])
  <2>1. PICK top \in DOMAIN graph.nodes, id \in 1..m :
          top = Top /\ graph.nodes[top].entity \in Entities /\ Bind(top, id)
    BY <1>1, <1>3, <1>5, <1>6
  <2>2. NextId - 1 <= m
    BY <1>6
  <2>3. QED
    BY <1>2, <1>6, <2>1, <2>2, BoundTo
<1>8. NextId' = NextId
  BY <1>1 DEF NextId
<1>9. Numbered'
  BY <1>1, <1>2, NumberedStill
<1>10. Lowering'
  BY <1>1, <1>3, <1>6, <1>7, <1>8, <1>9 DEF Lowering
<1>11. QED
  BY <1>1, <1>10, LoweredStep

LEMMA RunLowerArithmetic ==
  ASSUME RunInv, LowerArithmetic, UNCHANGED <<recordingVars, hold>>
  PROVE  RunInv'
<1> DEFINE n == Len(code)
<1>1. /\ Ready /\ ~IsLeaf(Top) /\ code' = Append(code, Emitted(Top))
      /\ Bind(Top, NextId) /\ Return
      /\ UNCHANGED <<phase, temps, recording, store, next, graph, inputs>>
  BY DEF LowerArithmetic
<1>2. GraphIn(graph) /\ Lowering /\ Numbered /\ stack # << >> /\ ToLower(Top) = {}
  BY <1>1, LowerFacts
<1>3. /\ Top \in DOMAIN graph.nodes /\ graph.nodes[Top].entity \in Entities
      /\ stack' \in Seq(DOMAIN graph.nodes)
  BY <1>1, <1>2, TopNode DEF Lowering, Return
<1>4. PICK N \in Nat \ {0} : N = NextId
  BY <1>2, NumbersFacts
<1>5. /\ N = Len(inputs) + n + 1 /\ n \in Nat /\ Len(inputs) \in Nat
      /\ DOMAIN code = 1..n /\ N \notin InputIds /\ N \notin Results(n)
      /\ InputIds \cup Results(n) = 1..(N - 1)
  BY <1>2, <1>4, NumbersFacts DEF Numbered
<1>6. PICK inst : inst = Emitted(Top)
  OBVIOUS
<1>7. inst.res = N /\ \A j \in 1..4 : inst.args[j] \in {Unused} \cup 1..(N - 1)
  <2>1. PICK a, b : /\ a = ids[Children(Top)[1]]
                    /\ b = IF Folds(Top) THEN Unused ELSE ids[Children(Top)[2]]
    OBVIOUS
  <2>2. a \in 1..(N - 1) /\ b \in {Unused} \cup 1..(N - 1)
    <3>1. a \in 1..(N - 1)
      BY <1>1, <1>2, <1>4, <2>1, ChildLowered
    <3>2. CASE Folds(Top)
      BY <2>1, <3>1, <3>2
    <3>3. CASE ~Folds(Top)
      <4>1. ids[Children(Top)[2]] \in 1..(N - 1)
        BY <1>1, <1>2, <1>4, <3>3, ChildLowered
      <4>2. QED
        BY <2>1, <3>1, <3>3, <4>1
    <3>4. QED
      BY <3>2, <3>3
  <2>3. inst.res = N /\ inst.args = <<a, b, Unused, Unused>>
    BY <1>4, <1>6, <2>1 DEF Emitted
  <2>4. \A j \in 1..4 : j = 1 \/ j = 2 \/ j = 3 \/ j = 4
    OBVIOUS
  <2>5. QED
    BY <2>2, <2>3, <2>4
<1>8. /\ code' \in Seq(Range(code')) /\ Len(code') = n + 1 /\ DOMAIN code' = 1..(n + 1)
      /\ code'[n + 1] = inst /\ \A k \in 1..n : code'[k] = code[k]
  <2>1. PICK o, p : o = code /\ p = Append(o, inst)
    OBVIOUS
  <2>2. o \in Seq(Range(o)) /\ code' = p
    BY <1>1, <1>2, <1>6, <2>1 DEF Numbered
  <2>3. /\ p \in Seq(Range(p)) /\ Len(p) = Len(o) + 1 /\ p[Len(o) + 1] = inst
        /\ \A k \in 1..Len(o) : p[k] = o[k]
        /\ DOMAIN p = 1..(Len(o) + 1)
    BY <2>1, <2>2, SequenceGrows
  <2>4. QED
    BY <2>1, <2>2, <2>3
<1>9. NextId' = N + 1 /\ InputIds' = InputIds
  BY <1>1, <1>5, <1>8 DEF NextId, InputIds
<1>10. ids' \in [DOMAIN graph.nodes -> 0..N]
       /\ bindings' \in Seq([id : 1..N, entity : Entities])
  <2>1. PICK top \in DOMAIN graph.nodes :
          top = Top /\ graph.nodes[top].entity \in Entities /\ Bind(top, N)
    BY <1>1, <1>3, <1>4
  <2>2. N \in 1..N /\ NextId \in Nat /\ NextId - 1 <= N
    BY <1>4
  <2>3. QED
    BY <1>2, <2>1, <2>2, BoundTo
<1>11. \A i \in 1..(n + 1) : Results(i - 1)' = Results(i - 1)
  <2> TAKE i \in 1..(n + 1)
  <2>1. \A k \in 1..(i - 1) : code'[k] = code[k]
    BY <1>5, <1>8
  <2>2. QED
    BY <2>1 DEF Results
<1>12. Results(Len(code))' = Results(n) \cup {N}
  <2>1. \A x : x \in Results(Len(code))' <=> \E k \in 1..(n + 1) : x = code'[k].res
    BY <1>8 DEF Results
  <2>2. \A x : x \in Results(n) <=> \E k \in 1..n : x = code[k].res
    BY DEF Results
  <2>3. 1..(n + 1) = 1..n \cup {n + 1}
    BY <1>5
  <2>4. \A x : x \in Results(Len(code))' <=> x \in Results(n) \cup {N}
    <3> TAKE x
    <3>1. (\E k \in 1..n : x = code'[k].res) <=> x \in Results(n)
      BY <1>8, <2>2
    <3>2. x = code'[n + 1].res <=> x = N
      BY <1>7, <1>8
    <3> HIDE DEF n
    <3>3. (\E k \in 1..(n + 1) : x = code'[k].res)
          <=> (\E k \in 1..n : x = code'[k].res) \/ x = code'[n + 1].res
      BY <2>3
    <3>4. QED
      BY <2>1, <3>1, <3>2, <3>3
  <2>5. QED
    BY <2>4
<1>13. Numbered'
  <2>1. /\ inputs' \in Seq(Nat)
        /\ \A k, l \in DOMAIN inputs' : inputs'[k] = inputs'[l] => k = l
    BY <1>1, <1>2 DEF Numbered
  <2>2. InputIds' \cup Results(Len(code))' = 1..(NextId' - 1)
    <3>1. 1..(N - 1) \cup {N} = 1..((N + 1) - 1)
      BY <1>4
    <3>2. QED
      BY <1>5, <1>9, <1>12, <3>1
  <2>3. InputIds' \cap Results(Len(code))' = {}
    BY <1>2, <1>5, <1>9, <1>12 DEF Numbered
  <2>4. \A i, j \in DOMAIN code' : code'[i].res = code'[j].res => i = j
    <3>1. \A i, j \in 1..n : code[i].res = code[j].res => i = j
      BY <1>2, <1>5 DEF Numbered
    <3>2. \A i \in 1..n : code[i].res # N
      BY <1>5 DEF Results
    <3>3. \A i \in 1..(n + 1) : i \in 1..n \/ i = n + 1
      BY <1>5
    <3>4. QED
      BY <1>7, <1>8, <3>1, <3>2, <3>3
  <2>5. \A i \in DOMAIN code' : \A j \in 1..4 :
          code'[i].args[j] \in {Unused} \cup InputIds' \cup Results(i - 1)'
    <3> TAKE i \in DOMAIN code'
    <3>1. Results(i - 1)' = Results(i - 1)
      BY <1>8, <1>11
    <3>2. CASE i \in 1..n
      BY <1>2, <1>5, <1>8, <1>9, <3>1, <3>2 DEF Numbered
    <3>3. CASE i = n + 1
      <4>1. i - 1 = n
        BY <1>5, <3>3
      <4>2. \A j \in 1..4 : inst.args[j] \in {Unused} \cup InputIds \cup Results(n)
        BY <1>5, <1>7
      <4>3. QED
        BY <1>8, <1>9, <3>1, <3>3, <4>1, <4>2
    <3>4. QED
      BY <1>5, <1>8, <3>2, <3>3
  <2>6. QED
    BY <1>8, <2>1, <2>2, <2>3, <2>4, <2>5 DEF Numbered
<1>14. Lowering'
  <2>1. NextId' - 1 = N
    BY <1>4, <1>9
  <2>2. QED
    BY <1>1, <1>3, <1>10, <1>13, <2>1 DEF Lowering
<1>15. QED
  BY <1>1, <1>14, LoweredStep

LEMMA RunLoweringDone ==
  ASSUME RunInv, LoweringDone, UNCHANGED <<recordingVars, hold>>
  PROVE  RunInv'
<1>1. /\ phase = "lower" /\ phase' = "lowered"
      /\ UNCHANGED <<temps, recording, store, next, graph, stack, ids, code, inputs, bindings>>
      /\ UNCHANGED <<poisoned, hold>>
  BY DEF LoweringDone, graphVars, lowering, recordingVars
<1>2. Lowering /\ GraphIn(graph) /\ ~poisoned /\ DOMAIN hold \subseteq Nat
  BY <1>1 DEF RunInv, Staged, Translating
<1>3. Lowering' /\ GraphIn(graph)'
  <2>1. stack' \in Seq(DOMAIN graph.nodes)
    BY <1>1, <1>2 DEF Lowering
  <2>2. QED
    BY <1>1, <1>2, <2>1, LoweringStill DEF GraphIn, NodeIn
<1>4. Staged'
  BY <1>1, <1>2, <1>3 DEF Staged, Phases, Translating
<1>5. QED
  BY <1>1, <1>4, KeptWithStore

-----------------------------------------------------------------------------
(* Evaluation.                                                              *)

LEMMA EvaluatedStep ==
  ASSUME RunInv, phase = "evaluate", stack # << >>, Return, StoreTyped',
         UNCHANGED <<phase, temps, recording, next, graph, recordingVars, hold>>
  PROVE  RunInv'
<1>1. /\ GraphIn(graph) /\ ~poisoned /\ DOMAIN hold \subseteq Nat /\ next \in Nat \ {0}
      /\ ~start.runtime /\ stack \in Seq(DOMAIN graph.nodes)
  BY DEF RunInv, Staged, Translating
<1>2. stack' \in Seq(DOMAIN graph.nodes)
  BY <1>1, TopNode DEF Return
<1>3. GraphIn(graph)'
  BY <1>1 DEF GraphIn, NodeIn
<1>4. poisoned' = poisoned /\ start' = start
  BY DEF recordingVars
<1>5. Staged'
  BY <1>1, <1>2, <1>3, <1>4 DEF Staged, Phases, Translating
<1>6. Untouched'
  BY <1>1, <1>4 DEF Untouched
<1>7. QED
  BY <1>5, <1>6, Kept

LEMMA RecordedTop ==
  ASSUME RunInv, phase = "evaluate", stack # << >>, ~IsLeaf(Top)
  PROVE  /\ Recorded(Top) \in Recordable
         /\ Recorded(Top).operand1 \in Entities /\ Recorded(Top).operand2 \in Entities
         /\ Recorded(Top).type # "Assignment" => Recorded(Top).result \in Entities
<1>1. GraphIn(graph) /\ stack \in Seq(DOMAIN graph.nodes) /\ recording \in Seq(Recordable)
  BY DEF RunInv, Staged, Translating, RecordedTyped
<1>2. graph.nodes[Top].op \in DOMAIN recording
  BY <1>1, TopNode
<1>3. Recorded(Top) \in Recordable
  BY <1>1, <1>2 DEF Recorded
<1>4. PICK op : op = Recorded(Top)
  OBVIOUS
<1>5. op \in Recordable
  BY <1>3, <1>4
<1>6. /\ op.operand1 \in Entities /\ op.operand2 \in Entities
      /\ op.type # "Assignment" => op.result \in Entities
  BY <1>5 DEF Recordable, Operation
<1>7. QED
  BY <1>3, <1>4, <1>6

LEMMA RunEvaluateLeaf ==
  ASSUME RunInv, EvaluateLeaf, UNCHANGED <<recordingVars, hold>>
  PROVE  RunInv'
<1>1. /\ phase = "evaluate" /\ stack # << >> /\ Return
      /\ UNCHANGED <<phase, temps, recording, store, next, graph>>
  BY DEF EvaluateLeaf, EvaluateReady
<1>2. StoreTyped'
  BY <1>1, StoreStill DEF RunInv
<1>3. QED
  BY <1>1, <1>2, EvaluatedStep

LEMMA RunExecuteAssignment ==
  ASSUME RunInv, ExecuteAssignment, UNCHANGED <<recordingVars, hold>>
  PROVE  RunInv'
<1>1. PICK op : op = Recorded(Top)
  OBVIOUS
<1>2. /\ phase = "evaluate" /\ stack # << >> /\ ~IsLeaf(Top) /\ Return
      /\ UNCHANGED <<phase, temps, recording, blocks, next, graph>>
      /\ plain' = [plain EXCEPT ![op.operand1] = plain[op.operand2]]
      /\ cipher' = IF IsEncrypted(op.operand2)
                     THEN [cipher EXCEPT ![op.operand1] = cipher[op.operand2]]
                     ELSE cipher
  BY <1>1 DEF ExecuteAssignment, EvaluateReady
<1>3. op.operand1 \in Entities /\ op.operand2 \in Entities
  BY <1>1, <1>2, RecordedTop
<1>4. StoreTyped
  BY DEF RunInv
<1>5. cipher' \in [Entities -> 0..Len(blocks)] /\ DOMAIN plain' = Entities
  <2>1. cipher \in [Entities -> 0..Len(blocks)] /\ DOMAIN plain = Entities
    BY <1>4 DEF StoreTyped
  <2>2. CASE IsEncrypted(op.operand2)
    BY <1>2, <1>3, <2>1, <2>2
  <2>3. CASE ~IsEncrypted(op.operand2)
    BY <1>2, <2>1, <2>3
  <2>4. QED
    BY <2>2, <2>3
<1>6. StoreTyped'
  BY <1>2, <1>4, <1>5 DEF StoreTyped
<1>7. QED
  BY <1>2, <1>6, EvaluatedStep

LEMMA RunExecuteArithmetic ==
  ASSUME RunInv, ExecuteArithmetic, UNCHANGED <<recordingVars, hold>>
  PROVE  RunInv'
<1>1. PICK op, value : /\ op = Recorded(Top)
                       /\ value = <<op.type, Holds(op.operand1), Holds(op.operand2)>>
  OBVIOUS
<1>2. /\ phase = "evaluate" /\ stack # << >> /\ ~IsLeaf(Top) /\ Return
      /\ op.type \in Arithmetic
      /\ UNCHANGED <<phase, temps, recording, next, graph>>
      /\ blocks' = Append(blocks, Block(Len(blocks) + 1, "ours", value))
      /\ cipher' = [cipher EXCEPT ![op.result] = Len(blocks) + 1]
      /\ plain' = [plain EXCEPT ![op.result] = <<Nothing>>]
  BY <1>1 DEF ExecuteArithmetic, EvaluateReady
<1>3. PICK e \in Entities : e = op.result
  BY <1>1, <1>2, RecordedTop DEF Arithmetic
<1>4. StoreTyped
  BY DEF RunInv
<1>5. DOMAIN plain' = Entities
  BY <1>2, <1>4 DEF StoreTyped
<1>6. StoreTyped'
  <2>1. PICK owner : owner = "ours"
    OBVIOUS
  <2>2. /\ cipher' = [cipher EXCEPT ![e] = Len(blocks) + 1]
        /\ blocks' = Append(blocks, Block(Len(blocks) + 1, owner, value))
    BY <1>2, <1>3, <2>1
  <2>3. QED
    BY <1>4, <1>5, <2>2, BlockMade
<1>7. QED
  BY <1>2, <1>6, EvaluatedStep

(* The run gives up, or evaluation is over.                                 *)
LEMMA Left ==
  ASSUME RunInv, phase \in Translating, phase' \in {"throw", "return"}, DOMAIN hold \subseteq Nat,
         UNCHANGED <<temps, recording, store, recordingVars, hold>>
  PROVE  RunInv'
<1>1. Staged'
  BY DEF Staged, Phases, Translating
<1>2. phase' \in {"return", "ok"} \/ phase \notin {"return", "ok"}
  BY DEF Translating
<1>3. QED
  BY <1>1, <1>2, KeptWithStore

LEMMA HoldTyped ==
  ASSUME RunInv
  PROVE  DOMAIN hold \subseteq Nat
BY DEF RunInv, Staged

LEMMA RunEvaluationEnds ==
  ASSUME RunInv, ExecuteThrows \/ EvaluationDone, UNCHANGED <<recordingVars, hold>>
  PROVE  RunInv'
<1>1. /\ phase = "evaluate" /\ phase' \in {"throw", "return"}
      /\ UNCHANGED <<temps, recording, store>>
  BY DEF ExecuteThrows, EvaluationDone, EvaluateReady
<1>2. QED
  BY <1>1, HoldTyped, Left DEF Translating

LEMMA RunWalk ==
  ASSUME RunInv, Walk
  PROVE  RunInv'
<1>1. PICK walk : walk = IF start.runtime THEN "lower" ELSE "evaluate"
  OBVIOUS
<1>2. GraphNext(walk) /\ UNCHANGED <<recordingVars, hold>>
  BY <1>1 DEF Walk
<1>3. CASE BuildOperation
  BY <1>2, <1>3, RunBuildOperation
<1>4. CASE GraphBuilt(walk)
  BY <1>1, <1>2, <1>4, RunGraphBuilt
<1>5. CASE VisitRoot
  BY <1>2, <1>5, RunVisitRoot
<1>6. CASE VisitChild
  BY <1>2, <1>6, RunVisitChild
<1>7. CASE LowerLeaf
  BY <1>2, <1>7, RunLowerLeaf
<1>8. CASE LowerAssignment
  BY <1>2, <1>8, RunLowerAssignment
<1>9. CASE LowerArithmetic
  BY <1>2, <1>9, RunLowerArithmetic
<1>10. CASE LoweringDone
  BY <1>2, <1>10, RunLoweringDone
<1>11. CASE EvaluateLeaf
  BY <1>2, <1>11, RunEvaluateLeaf
<1>12. CASE ExecuteAssignment
  BY <1>2, <1>12, RunExecuteAssignment
<1>13. CASE ExecuteArithmetic
  BY <1>2, <1>13, RunExecuteArithmetic
<1>14. CASE ExecuteThrows \/ EvaluationDone
  BY <1>2, <1>14, RunEvaluationEnds
<1>15. QED
  BY <1>2, <1>3, <1>4, <1>5, <1>6, <1>7, <1>8, <1>9, <1>10, <1>11, <1>12, <1>13, <1>14
     DEF GraphNext

-----------------------------------------------------------------------------
(* Execution through an FHN runtime.                                        *)

LEMMA BindingFacts ==
  ASSUME Lowering, NEW k \in DOMAIN bindings
  PROVE  /\ bindings[k].id \in 1..(NextId - 1) /\ bindings[k].entity \in Entities
         /\ DOMAIN bindings = 1..Len(bindings) /\ Len(bindings) \in Nat
<1>1. PICK T : T = [id : 1..(NextId - 1), entity : Entities]
  OBVIOUS
<1>2. bindings \in Seq(T)
  BY <1>1, Zenon DEF Lowering
<1>3. bindings[k] \in T /\ DOMAIN bindings = 1..Len(bindings) /\ Len(bindings) \in Nat
  BY <1>2
<1>4. QED
  BY <1>1, <1>3

LEMMA RunProvision ==
  ASSUME RunInv, Provision
  PROVE  RunInv'
<1>1. /\ phase = "lowered"
      /\ UNCHANGED <<temps, recording, store, recordingVars, graphVars>>
  BY DEF Provision
<1>2. CASE WellFormed(lowered) /\ Provisionable
  <2>1. /\ hold' = [id \in InputIds |-> cipher[Provider(id)]] /\ phase' = "execute"
    BY <1>2 DEF Provision
  <2>2. Lowering /\ GraphIn(graph) /\ ~poisoned /\ StoreTyped
    BY <1>1 DEF RunInv, Staged, Translating
  <2>3. \A id \in InputIds : cipher[Provider(id)] \in 0..Len(blocks)
    <3> TAKE id \in InputIds
    <3>1. Providers(id) # {}
      BY <1>2 DEF Provisionable
    <3>2. Providers(id) \subseteq DOMAIN bindings
      BY DEF Providers
    <3>3. PICK p \in DOMAIN bindings : TRUE
      BY <3>1, <3>2
    <3>4. DOMAIN bindings \subseteq Nat
      BY <2>2, <3>3, BindingFacts
    <3>5. Min(Providers(id)) \in DOMAIN bindings
      BY <3>1, <3>2, <3>4, LeastOf
    <3>6. Provider(id) \in Entities
      BY <2>2, <3>5, BindingFacts DEF Provider
    <3>7. QED
      BY <2>2, <3>6 DEF StoreTyped
  <2>4. UNCHANGED <<next, graph, stack, ids, code, inputs, bindings>>
    BY <1>1 DEF graphVars, lowering
  <2>5. InputIds' = InputIds /\ blocks' = blocks
    BY <1>1, <2>4 DEF InputIds, store
  <2>6. hold' \in [InputIds -> 0..Len(blocks)]
    BY <2>1, <2>3
  <2>7. InputIds \subseteq Nat
    BY <2>2, NumbersFacts DEF Lowering
  <2>8. Lowering' /\ GraphIn(graph)'
    <3>1. stack' \in Seq(DOMAIN graph.nodes)
      BY <2>2, <2>4 DEF Lowering
    <3>2. QED
      BY <1>1, <2>2, <2>4, <3>1, LoweringStill DEF GraphIn, NodeIn
  <2>9. Staged'
    <3>1. ~poisoned' /\ DOMAIN hold' \subseteq Nat /\ hold' \in [InputIds' -> 0..Len(blocks')]
      BY <1>1, <2>2, <2>5, <2>6, <2>7 DEF recordingVars
    <3>2. QED
      BY <2>1, <2>8, <3>1 DEF Staged, Phases, Translating
  <2>10. QED
    BY <1>1, <2>9, KeptWithStore
<1>3. CASE ~(WellFormed(lowered) /\ Provisionable)
  BY <1>1, <1>3, HoldTyped, Left DEF Provision, Translating
<1>4. QED
  BY <1>2, <1>3

LEMMA RunExecutorFails ==
  ASSUME RunInv, ExecutorFails
  PROVE  RunInv'
BY HoldTyped, Left DEF ExecutorFails, Translating

LEMMA LatestFacts ==
  ASSUME Lowering, NEW e \in Bound
  PROVE  Latest(e) \in 1..(NextId - 1)
<1> DEFINE S == {k \in DOMAIN bindings : bindings[k].entity = e}
<1>1. PICK k \in DOMAIN bindings : bindings[k].entity = e
  BY DEF Bound
<1>2. S # {} /\ S \subseteq DOMAIN bindings
  BY <1>1
<1>3. PICK n \in Nat : n = Len(bindings) /\ DOMAIN bindings = 1..n
  BY <1>1, BindingFacts
<1>4. S \subseteq 0..n
  BY <1>3
<1> HIDE DEF S
<1>5. Max(S) \in S
  BY <1>2, <1>4, GreatestOf
<1>6. bindings[Max(S)].id \in 1..(NextId - 1)
  BY <1>2, <1>5, BindingFacts
<1>7. Latest(e) = bindings[Max(S)].id
  BY DEF Latest, S
<1>8. QED
  BY <1>6, <1>7

(* Every surviving buffer gets a control block of its own.                  *)
LEMMA AdoptedFacts ==
  ASSUME Lowering, Len(blocks) \in Nat
  PROVE  /\ Adopted \subseteq 1..(NextId - 1)
         /\ Cardinality(Adopted) \in Nat
         /\ \A id : Fresh(id) \in 0..(Len(blocks) + Cardinality(Adopted))
<1>1. Adopted \subseteq 1..(NextId - 1)
  BY LatestFacts DEF Adopted
<1>2. NextId - 1 \in Int
  BY NumbersFacts DEF Lowering
<1>3. IsFiniteSet(1..(NextId - 1))
  BY <1>2, FS_Interval
<1>4. IsFiniteSet(Adopted)
  BY <1>1, <1>3, FS_Subset
<1>5. Cardinality(Adopted) \in Nat
  BY <1>4, FS_CardinalityType
<1>6. \A id : Fresh(id) \in 0..(Len(blocks) + Cardinality(Adopted))
  <2> TAKE id
  <2> DEFINE T == {a \in Adopted : a <= id}
  <2>1. T \in SUBSET Adopted
    OBVIOUS
  <2> HIDE DEF T
  <2>2. Cardinality(T) \in Nat /\ Cardinality(T) <= Cardinality(Adopted)
    BY <1>4, <2>1, FS_Subset, FS_CardinalityType
  <2>3. Len(blocks) + Cardinality(T) \in 0..(Len(blocks) + Cardinality(Adopted))
    BY <1>5, <2>2
  <2>4. QED
    BY <2>3 DEF Fresh, T
<1>7. QED
  BY <1>1, <1>5, <1>6

LEMMA JoinedMany ==
  ASSUME NEW S, NEW s \in Seq(S), NEW n \in Nat, NEW t \in [1..n -> S]
  PROVE  /\ s \o t \in Seq(S) /\ Len(s \o t) = Len(s) + n /\ Len(s) \in Nat
         /\ DOMAIN (s \o t) = 1..(Len(s) + n) /\ DOMAIN s = 1..Len(s)
         /\ \A k \in 1..Len(s) : (s \o t)[k] = s[k]
         /\ \A k \in 1..n : (s \o t)[Len(s) + k] = t[k]
<1>1. t \in Seq(S) /\ Len(t) = n
  OBVIOUS
<1>2. QED
  BY <1>1

LEMMA RunWriteBack ==
  ASSUME RunInv, WriteBack
  PROVE  RunInv'
<1> DEFINE n == Cardinality(Adopted)
           m == Len(blocks)
<1>1. /\ phase = "execute" /\ phase' = "return"
      /\ UNCHANGED <<temps, recording, plain, recordingVars, hold>>
      /\ cipher' = [e \in Entities |-> IF e \in Bound THEN Adopt(Latest(e)) ELSE cipher[e]]
  BY DEF WriteBack
<1>2. Lowering /\ StoreTyped /\ hold \in [InputIds -> 0..m]
  BY <1>1 DEF RunInv, Staged
<1>3. /\ blocks \in Seq(Range(blocks)) /\ m \in Nat /\ DOMAIN blocks = 1..m
      /\ \A b \in 1..m : blocks[b].raw = b
      /\ cipher \in [Entities -> 0..m] /\ DOMAIN plain = Entities
  <2>1. blocks \in Seq(Range(blocks))
    BY <1>2 DEF StoreTyped
  <2>2. m \in Nat /\ DOMAIN blocks = 1..m
    BY <2>1
  <2>3. QED
    BY <1>2, <2>1, <2>2 DEF StoreTyped
<1>4. n \in Nat /\ \A id : Fresh(id) \in 0..(m + n)
  BY <1>2, <1>3, AdoptedFacts
<1>5. PICK t : /\ blocks' = blocks \o t
               /\ t = [k \in 1..n |-> t[k]]
               /\ \A k \in 1..n : t[k].raw = m + k
  <2> DEFINE f == [k \in 1..n |->
                     LET id == CHOOSE a \in Adopted : Fresh(a) = m + k
                     IN  Block(m + k, "ours", Values[id])]
  <2>1. blocks' = blocks \o f
    BY DEF WriteBack
  <2>2. f = [k \in 1..n |-> f[k]] /\ \A k \in 1..n : f[k].raw = m + k
    BY DEF Block
  <2> HIDE DEF f
  <2>3. QED
    BY <2>1, <2>2
<1> HIDE DEF n, m
<1>6. PICK S : S = Range(blocks) \cup {t[k] : k \in 1..n}
  OBVIOUS
<1>7. t \in [1..n -> S] /\ blocks \in Seq(S)
  <2>1. Range(blocks) \subseteq S /\ \A k \in 1..n : t[k] \in S
    BY <1>6
  <2>2. blocks \in Seq(S)
    BY <1>3, <2>1, LongerSequence
  <2>3. QED
    BY <1>5, <2>1, <2>2
<1>8. /\ blocks' \in Seq(S) /\ Len(blocks') = m + n /\ DOMAIN blocks' = 1..(m + n)
      /\ \A k \in 1..m : blocks'[k] = blocks[k]
      /\ \A k \in 1..n : blocks'[m + k] = t[k]
  BY <1>4, <1>5, <1>7, JoinedMany DEF m
<1>9. blocks' \in Seq(Range(blocks'))
  BY <1>8, SequenceOfElements
<1>10. \A b \in DOMAIN blocks' : blocks'[b].raw = b
  <2> TAKE b \in DOMAIN blocks'
  <2>1. CASE b \in 1..m
    BY <1>3, <1>8, <2>1
  <2>2. CASE b \in (m + 1)..(m + n)
    <3>1. PICK k \in 1..n : b = m + k
      <4>1. b - m \in 1..n /\ b = m + (b - m)
        BY <1>3, <1>4, <2>2
      <4>2. QED
        BY <4>1
    <3>2. QED
      BY <1>5, <1>8, <3>1
  <2>3. QED
    BY <1>3, <1>4, <1>8, <2>1, <2>2
<1>11. cipher' \in [Entities -> 0..(m + n)]
  <2>1. \A id : Adopt(id) \in 0..(m + n)
    <3>1. 0..m \subseteq 0..(m + n)
      BY <1>3, <1>4
    <3>2. QED
      BY <1>2, <1>4, <3>1 DEF Adopt
  <2>2. \A e \in Entities : cipher[e] \in 0..(m + n)
    BY <1>3, <1>4
  <2>3. QED
    BY <1>1, <2>1, <2>2
<1>12. StoreTyped'
  BY <1>1, <1>3, <1>8, <1>9, <1>10, <1>11 DEF StoreTyped
<1>13. Untouched'
  BY <1>1 DEF Untouched
<1>14. Staged'
  BY <1>1, HoldTyped DEF Staged, Phases, Translating
<1>15. QED
  BY <1>1, <1>12, <1>13, <1>14, Kept

LEMMA RunEndRun ==
  ASSUME RunInv, EndRun
  PROVE  RunInv'
<1>1. /\ phase \in {"return", "throw"}
      /\ phase' = IF phase = "return" THEN "ok" ELSE "failed"
      /\ recording' = << >> /\ temps' = << >>
      /\ cipher' = [e \in Entities |-> IF e \in Callers THEN cipher[e] ELSE 0]
      /\ UNCHANGED <<plain, blocks, start, live, moved, hold>>
      /\ map' = [e \in Entities |-> Nothing] /\ poisoned' = FALSE
  BY DEF EndRun, Ending, userVars
<1>2. RecordedTyped /\ StoreTyped /\ Untouched
  BY DEF RunInv
<1>3. RecordedTyped'
  <2>1. /\ temps' \in Seq(TempKinds) /\ Len(temps') = 0 /\ recording' \in Seq(Recordable)
    BY <1>1
  <2>2. QED
    BY <1>1, <1>2, <2>1, EntityFacts DEF RecordedTyped
<1>4. Registered(map, live, Len(temps))'
  <2>1. Len(temps') = 0 /\ 1..0 = {}
    BY <1>1
  <2>2. QED
    BY <1>1, <2>1 DEF Registered
<1>5. RecordedCanonical'
  <2>1. DOMAIN recording' = {}
    BY <1>1
  <2>2. QED
    BY <2>1 DEF RecordedCanonical
<1>6. StoreTyped'
  <2>1. blocks \in Seq(Range(blocks)) /\ cipher \in [Entities -> 0..Len(blocks)]
    BY <1>2 DEF StoreTyped
  <2>2. Len(blocks) \in Nat
    BY <2>1
  <2>3. cipher' \in [Entities -> 0..Len(blocks)]
    BY <1>1, <2>1, <2>2
  <2>4. QED
    BY <1>1, <1>2, <2>3 DEF StoreTyped
<1>7. Untouched'
  <2>1. \A c \in Callers : cipher'[c] = cipher[c]
    BY <1>1, EntityFacts
  <2>2. phase' \in {"return", "ok"} \/ phase \notin {"return", "ok"}
    BY <1>1
  <2>3. QED
    BY <1>1, <1>2, <2>1, <2>2 DEF Untouched, Started
<1>8. Staged'
  BY <1>1, HoldTyped DEF Staged, Phases, Translating
<1>9. QED
  BY <1>3, <1>4, <1>5, <1>6, <1>7, <1>8 DEF RunInv

-----------------------------------------------------------------------------
(* The results.                                                             *)

LEMMA RunStep ==
  ASSUME RunInv, [Next]_sessionVars
  PROVE  RunInv'
<1>1. CASE Record
  BY <1>1, RunRecord
<1>2. CASE Walk
  BY <1>2, RunWalk
<1>3. CASE Optimize \/ Provision \/ ExecutorFails \/ WriteBack \/ EndRun
  BY <1>3, RunOptimize, RunProvision, RunExecutorFails, RunWriteBack, RunEndRun
<1>4. CASE UNCHANGED sessionVars
  <2>1. /\ UNCHANGED <<phase, temps, recording, store, recordingVars, graphVars, hold>>
        /\ UNCHANGED <<next, graph, stack, ids, code, inputs, bindings, map, poisoned, start>>
        /\ UNCHANGED <<plain, cipher, blocks>>
    BY <1>4 DEF sessionVars, graphVars, lowering, recordingVars, store
  <2>2. phase \in {"lower", "lowered", "execute"} => Lowering'
    <3>1. SUFFICES ASSUME Lowering PROVE Lowering'
      BY DEF RunInv, Staged
    <3>2. QED
      BY <2>1, <3>1, LoweringStill DEF Lowering
  <2>3. GraphIn(graph) => GraphIn(graph)'
    BY <2>1 DEF GraphIn, NodeIn
  <2>4. InputIds' = InputIds /\ EmptyGraph' = EmptyGraph
    BY <2>1 DEF InputIds, EmptyGraph
  <2>5. Staged'
    BY <2>1, <2>2, <2>3, <2>4 DEF RunInv, Staged, Phases, Translating
  <2>6. QED
    BY <2>1, <2>5, KeptWithStore
<1>5. QED
  BY <1>1, <1>2, <1>3, <1>4 DEF Next, Run

(* In every state of every run, whatever the lambda records and whoever     *)
(* fails, the map, the recording, the buffers and the lowered program fit   *)
(* together (Session.h:62-141, Scheduler.h:57-136, Session.cpp:36-133).      *)
THEOREM RunInductive == Spec => []RunInv
<1>1. RunInv /\ [Next]_sessionVars => RunInv'
  BY RunStep
<1>2. QED
  BY <1>1, RunInit, PTL DEF Spec

(* Every variable of a run keeps its type, and a run that is over leaves    *)
(* the session with nothing recorded, tracked or poisoned                   *)
(* (Session.h:131-141).                                                     *)
THEOREM SessionTypeCorrect == Spec => []TypeOK
<1>1. RunInv => TypeOK
  <2> SUFFICES ASSUME RunInv
               PROVE  TypeOK
    OBVIOUS
  <2>1. Recordable \subseteq Operation
    BY DEF Recordable
  <2>2. recording \in Seq(Operation)
    BY <2>1, LongerSequence DEF RunInv, RecordedTyped
  <2>3. /\ temps \in Seq(TempKinds) /\ live \subseteq Names
        /\ cipher \in [Entities -> 0..Len(blocks)]
        /\ map \in [Entities -> Entities \cup {Nothing}]
    BY DEF RunInv, RecordedTyped, StoreTyped, Registered
  <2>4. /\ phase \in Phases /\ DOMAIN hold \subseteq Nat
        /\ phase \in {"ok", "failed"} =>
             recording = << >> /\ ~poisoned /\ \A e \in Entities : map[e] = Nothing
    BY DEF RunInv, Staged
  <2>5. QED
    BY <2>2, <2>3, <2>4 DEF TypeOK
<1>2. QED
  BY <1>1, RunInductive, PTL

(* Neither lowering, execution nor write-back ever meets an object that has *)
(* died, for however many variables, expressions and statements: a          *)
(* recording that mentions one is refused (Fhenon.cpp:73-88,                 *)
(* Session.h:118-124).                                                      *)
THEOREM NothingDead == Spec => []NothingDeadIsEvaluated
<1>1. RunInv => NothingDeadIsEvaluated
  <2> SUFFICES ASSUME RunInv, phase \in Translating, NEW k \in DOMAIN recording
               PROVE  /\ Mentions(recording[k]) \subseteq live \cup DOMAIN temps
                      /\ map[Target(recording[k])] = Target(recording[k])
    BY DEF NothingDeadIsEvaluated, Translating, Mentions
  <2>1. ~poisoned /\ recording \in Seq(Recordable) /\ Registered(map, live, Len(temps))
    BY DEF RunInv, Staged, RecordedTyped
  <2>2. \A e \in Mentions(recording[k]) : e \in Entities /\ map[e] = e
    BY <2>1, MentionsAreEntities DEF RunInv, RecordedCanonical
  <2>3. DOMAIN temps = 1..Len(temps)
    BY UsableNames
  <2>4. \A e \in Mentions(recording[k]) : e \in live \cup DOMAIN temps
    BY <2>1, <2>2, <2>3, EntityFacts DEF Registered
  <2>5. QED
    BY <2>2, <2>4 DEF Mentions
<1>2. QED
  BY <1>1, RunInductive, PTL

(* What lowerToFhnProgram emits is in single assignment and defines every   *)
(* operand before it is used, whatever was recorded: the planner has no     *)
(* ill formed program to refuse (LowerToFhnProgram.h:88-174,                 *)
(* Session.cpp:58-61).                                                      *)
THEOREM LoweredPlannable == Spec => []LoweredIsPlannable
<1>1. RunInv => LoweredIsPlannable
  <2> SUFFICES ASSUME RunInv, phase = "lowered"
               PROVE  WellFormed(lowered)
    BY DEF LoweredIsPlannable
  <2>1. Numbered
    BY DEF RunInv, Staged, Lowering
  <2>2. PICK p : p = lowered
    OBVIOUS
  <2>3. p.inputs = inputs /\ p.code = code
    BY <2>2 DEF lowered
  <2>4. /\ Inputs(p) = InputIds /\ Size(p) = Len(code) /\ Positions(p) = 1..Len(code)
        /\ \A i : Result(p, i) = code[i].res
        /\ \A i : {Result(p, j) : j \in 1..(i - 1)} = Results(i - 1)
        /\ {Result(p, i) : i \in Positions(p)} = Results(Len(code))
    BY <2>3 DEF Inputs, InputIds, Size, Positions, Result, Results
  <2>5. /\ InputIds \cup Results(Len(code)) = 1..(NextId - 1)
        /\ InputIds \cap Results(Len(code)) = {}
        /\ DOMAIN code = 1..Len(code)
        /\ \A k, l \in DOMAIN inputs : inputs[k] = inputs[l] => k = l
        /\ \A i, j \in DOMAIN code : code[i].res = code[j].res => i = j
    BY <2>1, NumbersFacts DEF Numbered
  <2>6. SingleAssignment(p)
    <3>1. Unused \notin Ids(p)
      BY <2>4, <2>5 DEF Ids, Unused
    <3>2. \A i \in Positions(p) : Result(p, i) \notin Inputs(p)
      <4> TAKE i \in Positions(p)
      <4>1. Result(p, i) \in Results(Len(code))
        BY <2>4
      <4>2. QED
        BY <2>4, <2>5, <4>1
    <3>3. /\ \A k, l \in DOMAIN p.inputs : p.inputs[k] = p.inputs[l] => k = l
          /\ \A i, j \in Positions(p) : Result(p, i) = Result(p, j) => i = j
      BY <2>3, <2>4, <2>5
    <3>4. QED
      BY <3>1, <3>2, <3>3 DEF SingleAssignment
  <2>7. DefinedBeforeUse(p)
    <3> SUFFICES ASSUME NEW i \in Positions(p), NEW id \in Operands(p, i)
                 PROVE  id \in Inputs(p) \cup {Result(p, j) : j \in 1..(i - 1)}
      BY DEF DefinedBeforeUse
    <3>1. PICK j \in 1..4 : id = code[i].args[j] /\ id # Unused
      BY <2>3 DEF Operands
    <3>2. code[i].args[j] \in {Unused} \cup InputIds \cup Results(i - 1)
      BY <2>1, <2>4, <2>5 DEF Numbered
    <3>3. QED
      BY <2>4, <3>1, <3>2
  <2>8. QED
    BY <2>2, <2>6, <2>7 DEF WellFormed
<1>2. QED
  BY <1>1, RunInductive, PTL

(* Through an FHN runtime, a run that fails, at whatever point, leaves each *)
(* caller variable its value and its encryption, unless the lambda moved    *)
(* it away (Session.cpp:58-107).                                            *)
THEOREM FailureTraceless == Spec => []FailureTouchesNothing
<1>1. RunInv => FailureTouchesNothing
  <2> SUFFICES ASSUME RunInv, phase = "failed", start.runtime,
                      NEW c \in (live \cap Callers) \ moved
               PROVE  Holds(c) = <<c>> /\ (IsEncrypted(c) <=> start.owner[c] # Nothing)
    BY DEF FailureTouchesNothing
  <2>1. /\ cipher[c] = Started(c) /\ plain[c] = <<c>>
        /\ Index[c] \in DOMAIN blocks /\ blocks[Index[c]].holds = <<c>>
    BY DEF RunInv, Untouched
  <2>2. Index[c] # 0
    BY IndexInjective
  <2>3. QED
    BY <2>1, <2>2 DEF Started, Holds, IsEncrypted
<1>2. QED
  BY <1>1, RunInductive, PTL

(* Entities that hold the same buffer hold it through the same control      *)
(* block, also the aliases an assignment makes and the values several       *)
(* bindings adopt: no buffer has a second owner to free it                  *)
(* (Session.cpp:109-133).                                                   *)
THEOREM OwnedOnce == Spec => []BuffersOwnedOnce
<1>1. RunInv => BuffersOwnedOnce
  <2> SUFFICES ASSUME RunInv, NEW e \in Entities, NEW f \in Entities,
                      IsEncrypted(e), IsEncrypted(f),
                      blocks[cipher[e]].raw = blocks[cipher[f]].raw
               PROVE  cipher[e] = cipher[f]
    BY DEF BuffersOwnedOnce
  <2>1. /\ blocks \in Seq(Range(blocks)) /\ \A b \in DOMAIN blocks : blocks[b].raw = b
        /\ cipher \in [Entities -> 0..Len(blocks)]
    BY DEF RunInv, StoreTyped
  <2>2. Len(blocks) \in Nat /\ DOMAIN blocks = 1..Len(blocks)
    BY <2>1
  <2>3. cipher[e] \in DOMAIN blocks /\ cipher[f] \in DOMAIN blocks
    BY <2>1, <2>2 DEF IsEncrypted
  <2>4. QED
    BY <2>1, <2>3
<1>2. QED
  BY <1>1, RunInductive, PTL
=============================================================================
