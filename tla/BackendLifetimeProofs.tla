----------------------- MODULE BackendLifetimeProofs -----------------------
(***************************************************************************)
(* For any number of backends, libraries and entities, in whatever order    *)
(* they come and go: calls reach loaded code, buffers are freed once,       *)
(* nothing leaks, and the owner tag tells backends apart.                   *)
(***************************************************************************)
EXTENDS BackendLifetime, FiniteSetTheorems, TLAPS

-----------------------------------------------------------------------------
(* Sequences and finite sets.                                              *)
LEMMA Appended ==
  ASSUME NEW S, NEW s \in Seq(S), NEW x \in S, NEW t, t = Append(s, x)
  PROVE  /\ t \in Seq(S)
         /\ Len(t) = Len(s) + 1
         /\ DOMAIN t = DOMAIN s \cup {Len(s) + 1}
         /\ Len(s) + 1 \notin DOMAIN s
         /\ \A k \in DOMAIN s : t[k] = s[k]
         /\ t[Len(s) + 1] = x
<1>1. Len(s) \in Nat /\ DOMAIN s = 1..Len(s)
  OBVIOUS
<1>2. t \in Seq(S) /\ Len(t) = Len(s) + 1 /\ DOMAIN t = 1..(Len(s) + 1)
  OBVIOUS
<1>3. QED
  BY <1>1, <1>2

LEMMA OneOf ==
  ASSUME NEW S, NEW x \in S, IsFiniteSet(S)
  PROVE  Cardinality(S) \in Nat /\ Cardinality(S) >= 1
<1>1. Cardinality(S) \in Nat /\ Cardinality(S) # 0
  BY FS_CardinalityType, FS_EmptySet
<1>2. QED
  BY <1>1

LEMMA PlusOne ==
  ASSUME NEW S, NEW x, x \notin S, IsFiniteSet(S)
  PROVE  Cardinality(S \cup {x}) = Cardinality(S) + 1 /\ Cardinality(S) \in Nat
BY FS_AddElement, FS_CardinalityType

LEMMA MinusOne ==
  ASSUME NEW S, NEW x \in S, IsFiniteSet(S)
  PROVE  Cardinality(S) = Cardinality(S \ {x}) + 1 /\ Cardinality(S \ {x}) \in Nat
<1>1. x \notin S \ {x} /\ IsFiniteSet(S \ {x}) /\ (S \ {x}) \cup {x} = S
  BY FS_RemoveElement
<1>2. QED
  BY <1>1, PlusOne

-----------------------------------------------------------------------------
(* Chains of destructor calls.                                             *)
OwedIn(t, op) == {t[k].of : k \in {j \in DOMAIN t : t[j].op = op}}

LEMMA OwedByNone == \A op : OwedIn(<< >>, op) = {}
BY DEF OwedIn

LEMMA OwedByOne ==
  ASSUME NEW o, NEW x, NEW op
  PROVE  OwedIn(<<Call(o, x)>>, op) = IF o = op THEN {x} ELSE {}
<1> DEFINE t == <<Call(o, x)>>
<1>1. DOMAIN t = {1} /\ t[1].op = o /\ t[1].of = x
  BY DEF Call
<1> HIDE DEF t
<1>2. OwedIn(t, op) = IF o = op THEN {x} ELSE {}
  BY <1>1 DEF OwedIn
<1>3. QED
  BY <1>2 DEF t

LEMMA Joined ==
  ASSUME NEW x
  PROVE  /\ <<x>> \o << >> = <<x>>
         /\ \A y : <<x>> \o <<y>> = <<x, y>>
         /\ Tail(<<x>>) = << >>
         /\ \A y : Tail(<<x, y>>) = <<y>>
<1>1. <<x>> \o << >> = <<x>>
  <2>1. <<x>> \in Seq({x}) /\ << >> \in Seq({x})
    OBVIOUS
  <2>2. QED
    BY <2>1
<1>2. Tail(<<x>>) = << >>
  <2>1. <<x>> \in Seq({x}) /\ <<x>> # << >>
    OBVIOUS
  <2>2. QED
    BY <2>1
<1>3. ASSUME NEW y PROVE <<x>> \o <<y>> = <<x, y>>
  <2> DEFINE s == <<x>> \o <<y>>
             t == <<x, y>>
  <2>1. <<x>> \in Seq({x, y}) /\ <<y>> \in Seq({x, y})
    OBVIOUS
  <2>2. s \in Seq({x, y}) /\ Len(s) = 2 /\ s[1] = x /\ s[2] = y
    BY <2>1
  <2>3. t \in Seq({x, y}) /\ Len(t) = 2 /\ t[1] = x /\ t[2] = y
    OBVIOUS
  <2> HIDE DEF s, t
  <2>4. s = t
    BY <2>2, <2>3
  <2>5. QED
    BY <2>4 DEF s, t
<1>4. ASSUME NEW y PROVE Tail(<<x, y>>) = <<y>>
  <2>1. <<x, y>> \in Seq({x, y}) /\ <<x, y>> # << >>
    OBVIOUS
  <2>2. QED
    BY <2>1
<1>5. QED
  BY <1>1, <1>2, <1>3, <1>4

LEMMA CoreDestructorIs ==
  ASSUME NEW c
  PROVE  CoreDestructor(c) =
           IF origin[c] = BuiltIn THEN <<Call("destroy", c)>>
           ELSE <<Call("destroy", c), Call("close", origin[c])>>
BY Joined DEF CoreDestructor

LEMMA OwedByCore ==
  ASSUME NEW c
  PROVE  /\ OwedIn(CoreDestructor(c), "free") = {}
         /\ OwedIn(CoreDestructor(c), "destroy") = {c}
         /\ OwedIn(CoreDestructor(c), "close") =
              IF origin[c] = BuiltIn THEN {} ELSE {origin[c]}
<1>1. CASE origin[c] = BuiltIn
  BY <1>1, CoreDestructorIs, OwedByOne
<1>2. CASE origin[c] # BuiltIn
  <2> DEFINE t == <<Call("destroy", c), Call("close", origin[c])>>
  <2>1. /\ DOMAIN t = {1, 2}
        /\ t[1].op = "destroy" /\ t[1].of = c
        /\ t[2].op = "close" /\ t[2].of = origin[c]
    BY DEF Call
  <2>2. CoreDestructor(c) = t
    BY <1>2, CoreDestructorIs
  <2> HIDE DEF t
  <2>3. QED
    BY <1>2, <2>1, <2>2 DEF OwedIn
<1>3. QED
  BY <1>1, <1>2

LEMMA CoreDestructorTyped ==
  ASSUME TypeOK, NEW c \in Contexts
  PROVE  CoreDestructor(c) \in
           Seq([op : {"free"}, of : Buffers] \cup [op : {"destroy"}, of : Contexts]
                 \cup [op : {"close"}, of : Libraries])
<1> DEFINE Calls == [op : {"free"}, of : Buffers] \cup [op : {"destroy"}, of : Contexts]
                      \cup [op : {"close"}, of : Libraries]
<1>1. Call("destroy", c) \in Calls
  BY DEF Call
<1>2. origin[c] \in Libraries \cup {BuiltIn}
  BY DEF TypeOK, Contexts
<1>3. origin[c] # BuiltIn => Call("close", origin[c]) \in Calls
  BY <1>2 DEF Call
<1> HIDE DEF Calls
<1>4. CoreDestructor(c) \in Seq(Calls)
  <2>1. \A x \in Calls : <<x>> \in Seq(Calls) /\ \A y \in Calls : <<x, y>> \in Seq(Calls)
    OBVIOUS
  <2>2. CASE origin[c] = BuiltIn
    BY <1>1, <2>1, <2>2, CoreDestructorIs
  <2>3. CASE origin[c] # BuiltIn
    BY <1>1, <1>3, <2>1, <2>3, CoreDestructorIs
  <2>4. QED
    BY <2>2, <2>3
<1>5. QED
  BY <1>4 DEF Calls

-----------------------------------------------------------------------------
(* The books.                                                              *)
LEMMA Domains ==
  ASSUME TypeOK
  PROVE  /\ Contexts = 1..Len(origin) /\ Len(origin) \in Nat
         /\ Buffers = 1..Len(maker) /\ Len(maker) \in Nat
         /\ NewContext \notin Contexts /\ NewBuffer \notin Buffers
         /\ \A c \in Contexts : origin[c] \in Libraries \cup {BuiltIn}
         /\ \A x \in Buffers : maker[x] \in Contexts
BY DEF TypeOK, Contexts, Buffers, NewContext, NewBuffer

LEMMA OwedIs == \A op : Owed(op) = OwedIn(todo, op) /\ Owed(op)' = OwedIn(todo', op)
BY DEF Owed, OwedIn

LEMMA NothingOwed ==
  /\ todo = << >> => \A op : Owed(op) = {}
  /\ todo' = << >> => \A op : Owed(op)' = {}
BY OwedIs, OwedByNone

LEMMA BooksFinite ==
  ASSUME TypeOK
  PROVE  \A l : IsFiniteSet(LoadingFrom(l)) /\ IsFiniteSet(KeptFrom(l))
<1>1. ASSUME NEW l PROVE IsFiniteSet(LoadingFrom(l))
  BY AddressesAssumption, FS_Subset DEF LoadingFrom
<1>2. ASSUME NEW l PROVE IsFiniteSet(KeptFrom(l))
  <2>1. KeptFrom(l) \subseteq 1..Len(origin) /\ Len(origin) \in Nat
    BY Domains DEF KeptFrom, KeptContexts
  <2>2. IsFiniteSet(1..Len(origin))
    BY <2>1, FS_Interval
  <2>3. QED
    BY <2>1, <2>2, FS_Subset
<1>3. QED
  BY <1>1, <1>2

LEMMA BooksCount ==
  ASSUME TypeOK, NEW l
  PROVE  /\ Cardinality(LoadingFrom(l)) \in Nat
         /\ Cardinality(KeptFrom(l)) \in Nat
         /\ LoadingFrom(l) # {} => Cardinality(LoadingFrom(l)) >= 1
         /\ KeptFrom(l) # {} => Cardinality(KeptFrom(l)) >= 1
<1>1. IsFiniteSet(LoadingFrom(l)) /\ IsFiniteSet(KeptFrom(l))
  BY BooksFinite
<1>2. Cardinality(LoadingFrom(l)) \in Nat /\ Cardinality(KeptFrom(l)) \in Nat
  BY <1>1, FS_CardinalityType
<1>3. LoadingFrom(l) # {} => Cardinality(LoadingFrom(l)) >= 1
  BY <1>1, OneOf
<1>4. KeptFrom(l) # {} => Cardinality(KeptFrom(l)) >= 1
  BY <1>1, OneOf
<1>5. QED
  BY <1>2, <1>3, <1>4

(* Between two chains everything alive is in use.                           *)
LEMMA AtRest ==
  ASSUME LifeInv, Idle
  PROVE  /\ live = Held
         /\ alive = KeptContexts \cup Constructed
         /\ \A l \in Libraries :
              opens[l] = Cardinality(LoadingFrom(l)) + Cardinality(KeptFrom(l))
<1>1. \A op : Owed(op) = {}
  BY NothingOwed DEF Idle
<1>2. \A l \in Libraries :
        opens[l] = Cardinality(LoadingFrom(l)) + Cardinality(KeptFrom(l)) + 0
  BY <1>1 DEF LifeInv, Accounted
<1>3. \A l \in Libraries :
        opens[l] = Cardinality(LoadingFrom(l)) + Cardinality(KeptFrom(l))
  BY <1>2, BooksCount DEF LifeInv
<1>4. QED
  BY <1>1, <1>3 DEF LifeInv, Accounted

LEMMA StillAtRest ==
  ASSUME TypeOK', todo' = << >>,
         live' = Held', alive' = KeptContexts' \cup Constructed',
         \A l \in Libraries :
           opens'[l] = Cardinality(LoadingFrom(l)') + Cardinality(KeptFrom(l)')
  PROVE  Accounted' /\ OneChain'
<1>1. \A op : Owed(op)' = {}
  BY NothingOwed
<1>2. \A l \in Libraries : opens'[l] \in Nat
  BY DEF TypeOK
<1>3. \A l \in Libraries :
        opens'[l] = Cardinality(LoadingFrom(l)') + Cardinality(KeptFrom(l)')
                      + (IF l \in Owed("close")' THEN 1 ELSE 0)
  BY <1>1, <1>2
<1>4. OneChain'
  BY DEF OneChain, Idle
<1>5. QED
  BY <1>1, <1>3, <1>4 DEF Accounted

-----------------------------------------------------------------------------
(* The loader.                                                             *)

(* What all its steps have in common: the object at b becomes               *)
(* Backend(s, l, c).                                                       *)
LoaderMove(b, s, l, c) ==
  /\ Idle /\ ~Ready(b)
  /\ backend' = [backend EXCEPT ![b] = Backend(s, l, c)]
  /\ UNCHANGED <<exports, maker, live, holds, todo>>
  /\ s \in Loading \cup {"ready", "absent"}
  /\ l \in Libraries \cup {BuiltIn, Nothing}
  /\ c \in 0..MaxContexts
  /\ s \in Loading => l \in Libraries
  /\ \/ UNCHANGED origin
     \/ /\ origin' = Append(origin, l) /\ c = NewContext
        /\ l \in Libraries \cup {BuiltIn}
  /\ s = "created" => c = NewContext /\ origin' = Append(origin, l)
  /\ s = "ready" =>
       \/ c = NewContext /\ origin' = Append(origin, l)
       \/ /\ backend[b] = Backend("created", l, c) /\ UNCHANGED origin

LEMMA Moved ==
  ASSUME TypeOK, NEW b \in Addresses, NEW s, NEW l, NEW c, LoaderMove(b, s, l, c)
  PROVE  /\ backend'[b].step = s /\ backend'[b].lib = l /\ backend'[b].ctx = c
         /\ \A a \in Addresses \ {b} : backend'[a] = backend[a]
         /\ backend' \in [Addresses ->
              [step : Loading \cup {"ready", "absent"},
               lib : Libraries \cup {BuiltIn, Nothing}, ctx : 0..MaxContexts]]
<1> DEFINE r == Backend(s, l, c)
           Objects == [step : Loading \cup {"ready", "absent"},
                       lib : Libraries \cup {BuiltIn, Nothing}, ctx : 0..MaxContexts]
<1>1. r.step = s /\ r.lib = l /\ r.ctx = c /\ r \in Objects
  BY DEF LoaderMove, Backend
<1>2. backend \in [Addresses -> Objects]
  BY DEF TypeOK
<1>3. backend' = [backend EXCEPT ![b] = r]
  BY DEF LoaderMove
<1> HIDE DEF r, Objects
<1>4. backend' \in [Addresses -> Objects] /\ backend'[b] = r
      /\ \A a \in Addresses \ {b} : backend'[a] = backend[a]
  BY <1>1, <1>2, <1>3
<1>5. QED
  BY <1>1, <1>4 DEF Objects

(* The contexts there were stay what they are.                              *)
LEMMA OriginsKept ==
  ASSUME TypeOK, NEW b \in Addresses, NEW s, NEW l, NEW c, LoaderMove(b, s, l, c)
  PROVE  /\ origin' \in Seq(Libraries \cup {BuiltIn})
         /\ Contexts \subseteq Contexts'
         /\ Contexts' \subseteq Contexts \cup {c}
         /\ \A d \in Contexts : origin'[d] = origin[d]
         /\ origin' # origin => /\ c = NewContext /\ c \notin Contexts
                                /\ c \in Contexts' /\ origin'[c] = l
<1>1. CASE UNCHANGED origin
  BY <1>1 DEF TypeOK, Contexts
<1>2. CASE /\ origin' = Append(origin, l) /\ c = NewContext
           /\ l \in Libraries \cup {BuiltIn}
  <2>1. origin \in Seq(Libraries \cup {BuiltIn})
    BY DEF TypeOK
  <2>2. /\ origin' \in Seq(Libraries \cup {BuiltIn})
        /\ DOMAIN origin' = DOMAIN origin \cup {Len(origin) + 1}
        /\ Len(origin) + 1 \notin DOMAIN origin
        /\ \A k \in DOMAIN origin : origin'[k] = origin[k]
        /\ origin'[Len(origin) + 1] = l
    BY <1>2, <2>1, Appended
  <2>3. QED
    BY <1>2, <2>2 DEF Contexts, NewContext
<1>3. QED
  BY <1>1, <1>2 DEF LoaderMove

LEMMA MoveTyped ==
  ASSUME TypeOK, NEW b \in Addresses, NEW s, NEW l, NEW c, LoaderMove(b, s, l, c),
         used' \subseteq Addresses, opens' \in [Libraries -> Nat],
         alive' \subseteq Contexts'
  PROVE  TypeOK'
<1>1. Contexts \subseteq Contexts' /\ origin' \in Seq(Libraries \cup {BuiltIn})
  BY OriginsKept
<1>2. maker' \in Seq(Contexts') /\ Buffers' = Buffers /\ live' \subseteq Buffers'
  BY <1>1 DEF TypeOK, LoaderMove, Buffers
<1>3. todo' = << >> /\ holds' = holds /\ exports' = exports
  BY DEF LoaderMove, Idle
<1>4. backend' \in [Addresses ->
              [step : Loading \cup {"ready", "absent"},
               lib : Libraries \cup {BuiltIn, Nothing}, ctx : 0..MaxContexts]]
  BY Moved
<1>5. todo' \in Seq([op : {"free"}, of : Buffers'] \cup [op : {"destroy"}, of : Contexts']
                    \cup [op : {"close"}, of : Libraries])
  BY <1>3
<1>6. holds' \in [Entities -> {Nothing} \cup [buffer : Buffers', owner : Addresses]]
  BY <1>2, <1>3 DEF TypeOK
<1>7. exports' \in [Libraries -> Exports]
  BY <1>3 DEF TypeOK
<1>8. QED
  BY <1>1, <1>2, <1>4, <1>5, <1>6, <1>7 DEF TypeOK

LEMMA MoveOwns ==
  ASSUME TypeOK, BackendsConstructed,
         NEW b \in Addresses, NEW s, NEW l, NEW c, LoaderMove(b, s, l, c)
  PROVE  BackendsConstructed'
<1> USE Moved, OriginsKept
<1>1. \A a \in Addresses \ {b} : HasContext(a)' <=> HasContext(a)
  BY DEF HasContext
<1>2. HasContext(b)' <=> s \in {"created", "ready"}
  BY DEF HasContext
<1>3. s \in {"created", "ready"} =>
        /\ c \in Contexts' /\ origin'[c] = l
        /\ \/ c \notin Contexts
           \/ HasContext(b) /\ backend[b].ctx = c
  <2>1. CASE origin' = origin
    <3>1. s \in {"created", "ready"} => backend[b] = Backend("created", l, c)
      <4>1. Append(origin, l) # origin
        <5>1. origin \in Seq(Libraries \cup {BuiltIn})
          BY DEF TypeOK
        <5>2. ASSUME Append(origin, l) = origin, l \in Libraries \cup {BuiltIn} PROVE FALSE
          <6>1. Len(origin) \in Nat /\ Len(origin) = Len(origin) + 1
            BY <5>1, <5>2, Appended
          <6>2. QED
            BY <6>1
        <5>3. QED
          BY <5>1, <5>2, <2>1 DEF LoaderMove
      <4>2. QED
        BY <2>1, <4>1 DEF LoaderMove
    <3>2. backend[b] = Backend("created", l, c) =>
            backend[b].step = "created" /\ backend[b].lib = l /\ backend[b].ctx = c
      BY DEF Backend
    <3>3. QED
      BY <2>1, <3>1, <3>2 DEF BackendsConstructed, HasContext, Contexts
  <2>2. CASE origin' # origin
    BY <2>2
  <2>3. QED
    BY <2>1, <2>2
<1>4. \A a \in Addresses :
        /\ (backend[a].step \in Loading => backend[a].lib \in Libraries)'
        /\ HasContext(a)' =>
             /\ backend'[a].ctx \in Contexts'
             /\ origin'[backend'[a].ctx] = backend'[a].lib
  <2>1. ASSUME NEW a \in Addresses \ {b}
        PROVE  /\ (backend[a].step \in Loading => backend[a].lib \in Libraries)'
               /\ HasContext(a)' =>
                    /\ backend'[a].ctx \in Contexts'
                    /\ origin'[backend'[a].ctx] = backend'[a].lib
    BY <1>1 DEF BackendsConstructed
  <2>2. /\ (backend[b].step \in Loading => backend[b].lib \in Libraries)'
        /\ HasContext(b)' =>
             /\ backend'[b].ctx \in Contexts'
             /\ origin'[backend'[b].ctx] = backend'[b].lib
    <3>1. backend'[b].step = s /\ backend'[b].lib = l /\ backend'[b].ctx = c
      OBVIOUS
    <3>2. s \in Loading => l \in Libraries
      BY DEF LoaderMove
    <3>3. QED
      BY <1>2, <1>3, <3>1, <3>2
  <2>3. QED
    BY <2>1, <2>2
<1>5. \A a \in Addresses \ {b} : HasContext(a) => backend[a].ctx \in Contexts
  BY DEF BackendsConstructed
<1>6. \A a, d \in Addresses :
        HasContext(a)' /\ HasContext(d)' /\ backend'[a].ctx = backend'[d].ctx => a = d
  <2>1. ASSUME NEW a \in Addresses \ {b}, HasContext(a)', HasContext(b)',
               backend'[a].ctx = backend'[b].ctx
        PROVE  FALSE
    BY <1>1, <1>2, <1>3, <1>5, <2>1 DEF BackendsConstructed
  <2>2. ASSUME NEW a \in Addresses \ {b}, NEW d \in Addresses \ {b}, HasContext(a)', HasContext(d)',
               backend'[a].ctx = backend'[d].ctx
        PROVE  a = d
    BY <1>1, <2>2 DEF BackendsConstructed
  <2>3. QED
    BY <2>1, <2>2
<1>7. \A a \in Addresses, x \in Buffers :
        backend'[a].step = "created" => maker'[x] # backend'[a].ctx
  <2>1. maker' = maker
    BY DEF LoaderMove
  <2>2. \A a \in Addresses \ {b}, x \in Buffers :
          backend'[a].step = "created" => maker'[x] # backend'[a].ctx
    BY <2>1 DEF BackendsConstructed
  <2>3. \A x \in Buffers : s = "created" => maker[x] # c
    BY Domains DEF LoaderMove
  <2>4. QED
    BY <2>1, <2>2, <2>3
<1>8. Buffers' = Buffers
  BY DEF LoaderMove, Buffers
<1>9. QED
  BY <1>4, <1>6, <1>7, <1>8 DEF BackendsConstructed

LEMMA MoveLoading ==
  ASSUME TypeOK, NEW b \in Addresses, NEW s, NEW l, NEW c, LoaderMove(b, s, l, c), NEW k
  PROVE  LoadingFrom(k)' = IF l = k /\ s \in Loading THEN LoadingFrom(k) \cup {b}
                           ELSE LoadingFrom(k) \ {b}
<1>1. /\ backend'[b].step = s /\ backend'[b].lib = l
      /\ \A a \in Addresses \ {b} : backend'[a] = backend[a]
  BY Moved
<1>2. QED
  BY <1>1 DEF LoadingFrom

(* A context is kept by the backend that becomes ready, and by nothing else *)
(* than before.                                                            *)
LEMMA MoveKept ==
  ASSUME TypeOK, BackendsConstructed, NEW b \in Addresses, NEW s, NEW l, NEW c, LoaderMove(b, s, l, c),
         s = "ready" => c \in Contexts'
  PROVE  KeptContexts' = IF s = "ready" THEN KeptContexts \cup {c} ELSE KeptContexts
<1>1. /\ backend'[b].step = s /\ backend'[b].ctx = c
      /\ \A a \in Addresses \ {b} : backend'[a] = backend[a]
  BY Moved
<1>2. maker' = maker /\ live' = live /\ backend[b].step # "ready"
  BY DEF LoaderMove, Ready
<1>3. Contexts \subseteq Contexts' /\ Contexts' \subseteq Contexts \cup {c}
      /\ (origin' # origin => c = NewContext)
  BY OriginsKept
<1>4. \A x \in live : maker[x] \in Contexts
  BY Domains DEF TypeOK
<1>5. ASSUME NEW d \in Contexts
      PROVE  Kept(d, backend, live)' <=> Kept(d, backend, live) \/ (s = "ready" /\ d = c)
  BY <1>1, <1>2 DEF Kept
<1>6. ASSUME s = "ready" PROVE Kept(c, backend, live)'
  BY <1>1, <1>6 DEF Kept
<1>7. ASSUME NEW d \in Contexts', d \notin Contexts, Kept(d, backend, live)'
      PROVE  s = "ready" /\ d = c
  <2>1. d = c
    BY <1>3, <1>7
  <2>2. \A x \in live : maker[x] # d
    BY <1>4, <1>7
  <2>3. PICK a \in Addresses : backend'[a].step = "ready" /\ backend'[a].ctx = d
    BY <1>2, <1>7, <2>2 DEF Kept
  <2>4. a = b
    BY <1>1, <1>7, <2>3 DEF BackendsConstructed, HasContext
  <2>5. QED
    BY <1>1, <2>1, <2>3, <2>4
<1>8. QED
  BY <1>3, <1>5, <1>6, <1>7 DEF KeptContexts

LEMMA MoveConstructed ==
  ASSUME TypeOK, BackendsConstructed,
         NEW b \in Addresses, NEW s, NEW l, NEW c, LoaderMove(b, s, l, c)
  PROVE  Constructed' =
           (Constructed \ (IF backend[b].step = "created" THEN {backend[b].ctx} ELSE {}))
             \cup (IF s = "created" THEN {c} ELSE {})
<1>1. /\ backend'[b].step = s /\ backend'[b].ctx = c
      /\ \A a \in Addresses \ {b} : backend'[a] = backend[a]
  BY Moved
<1>2. \A a \in Addresses : backend[a].step = "created" /\ backend[b].step = "created"
                             /\ backend[a].ctx = backend[b].ctx => a = b
  BY DEF BackendsConstructed, HasContext
<1>3. ASSUME NEW d \in Constructed'
      PROVE  \/ s = "created" /\ d = c
             \/ /\ d \in Constructed
                /\ ~(backend[b].step = "created" /\ d = backend[b].ctx)
  <2>1. PICK a \in Addresses : backend'[a].step = "created" /\ d = backend'[a].ctx
    BY <1>3 DEF Constructed
  <2>2. QED
    BY <1>1, <1>2, <2>1 DEF Constructed
<1>4. ASSUME NEW d \in Constructed, ~(backend[b].step = "created" /\ d = backend[b].ctx)
      PROVE  d \in Constructed'
  <2>1. PICK a \in Addresses : backend[a].step = "created" /\ d = backend[a].ctx
    BY <1>4 DEF Constructed
  <2>2. a # b
    BY <1>4, <2>1
  <2>3. QED
    BY <1>1, <2>1, <2>2 DEF Constructed
<1>5. s = "created" => c \in Constructed'
  BY <1>1 DEF Constructed
<1>6. QED
  BY <1>3, <1>4, <1>5

LEMMA MoveConstructedSame ==
  ASSUME TypeOK, BackendsConstructed,
         NEW b \in Addresses, NEW s, NEW l, NEW c, LoaderMove(b, s, l, c),
         backend[b].step # "created", s # "created"
  PROVE  Constructed' = Constructed
<1>1. Constructed' =
           (Constructed \ (IF backend[b].step = "created" THEN {backend[b].ctx} ELSE {}))
             \cup (IF s = "created" THEN {c} ELSE {})
  BY MoveConstructed
<1>2. QED
  BY <1>1

(* A context under construction, or not yet made, is not kept.              *)
LEMMA NotYetKept ==
  ASSUME TypeOK, BackendsConstructed
  PROVE  /\ NewContext \notin KeptContexts \cup Constructed
         /\ KeptContexts \cap Constructed = {}
         /\ Constructed \subseteq Contexts
<1>1. Constructed \subseteq Contexts
  BY DEF Constructed, BackendsConstructed, HasContext
<1>2. NewContext \notin Contexts
  BY Domains
<1>3. ASSUME NEW c \in KeptContexts, c \in Constructed PROVE FALSE
  <2>1. PICK b \in Addresses : backend[b].step = "created" /\ backend[b].ctx = c
    BY <1>3 DEF Constructed
  <2>2. \A x \in live : maker[x] # c
    BY <2>1 DEF BackendsConstructed, TypeOK
  <2>3. PICK a \in Addresses : backend[a].step = "ready" /\ backend[a].ctx = c
    BY <1>3, <2>2 DEF KeptContexts, Kept
  <2>4. QED
    BY <2>1, <2>3 DEF BackendsConstructed, HasContext
<1>4. QED
  BY <1>1, <1>2, <1>3 DEF KeptContexts

(* An address without a backend has no tagged buffers either.               *)
LEMMA MoveTags ==
  ASSUME TypeOK, TagsTell, NEW b \in Addresses, NEW s, NEW l, NEW c, LoaderMove(b, s, l, c),
         s = "absent" \/ b \notin used,
         used' = IF s = "ready" THEN used \cup {b} ELSE used
  PROVE  TagsTell'
<1>1. /\ backend'[b].step = s
      /\ \A a \in Addresses \ {b} : backend'[a] = backend[a]
  BY Moved
<1>2. holds' = holds /\ maker' = maker /\ s \in Loading \cup {"ready", "absent"}
      /\ "ready" \notin Loading /\ "absent" \notin Loading
  BY DEF LoaderMove, Loading
<1>3. \A e \in Entities : holds'[e] # Nothing => holds'[e].owner \in used'
  BY <1>2 DEF TagsTell
<1>4. \A a \in Addresses : backend'[a].step = "ready" => a \in used'
  BY <1>1, <1>2 DEF TagsTell, Ready
<1>5. \A a \in Addresses : backend'[a].step \in Loading => a \notin used'
  BY <1>1, <1>2 DEF TagsTell
<1>6. ASSUME NEW a \in Addresses, NEW e \in Entities, backend'[a].step = "ready",
             holds[e] # Nothing, holds[e].owner = a
      PROVE  maker[holds[e].buffer] = backend'[a].ctx
  <2>1. a \in used
    BY <1>6 DEF TagsTell
  <2>2. a # b
    BY <1>1, <1>2, <1>6, <2>1
  <2>3. backend'[a] = backend[a]
    BY <1>1, <2>2
  <2>4. QED
    BY <1>6, <2>3 DEF TagsTell, OwnerTagSeparates, Ready, Accepts
<1>7. QED
  BY <1>2, <1>3, <1>4, <1>5, <1>6 DEF TagsTell, OwnerTagSeparates, Ready, Accepts

(* One step of the loader keeps the books.                                  *)
LEMMA LoaderKeeps ==
  ASSUME LifeInv, NEW b \in Addresses, NEW s, NEW l, NEW c, LoaderMove(b, s, l, c),
         used' = IF s = "ready" THEN used \cup {b} ELSE used,
         ~Reuse => s = "absent" \/ b \notin used,
         opens' \in [Libraries -> Nat],
         alive' = KeptContexts' \cup Constructed',
         \A k \in Libraries :
           opens'[k] = Cardinality(LoadingFrom(k)') + Cardinality(KeptFrom(k)')
  PROVE  LifeInv'
<1>1. TypeOK /\ BackendsConstructed
  BY DEF LifeInv
<1>2. BackendsConstructed'
  BY <1>1, MoveOwns
<1>3. KeptContexts' \subseteq Contexts'
  BY DEF KeptContexts
<1>4. Constructed' \subseteq Contexts'
  BY <1>2 DEF Constructed, BackendsConstructed, HasContext
<1>5. TypeOK'
  <2>1. used' \subseteq Addresses
    BY <1>1 DEF TypeOK
  <2>2. QED
    BY <1>1, <1>3, <1>4, <2>1, MoveTyped
<1>6. live' = Held' /\ todo' = << >>
  <2>1. live = Held
    BY AtRest DEF LoaderMove
  <2>2. QED
    BY <2>1 DEF LoaderMove, Held, Idle
<1>7. Accounted' /\ OneChain'
  BY <1>5, <1>6, StillAtRest
<1>8. ~Reuse => TagsTell'
  BY <1>1, MoveTags DEF LifeInv
<1>9. QED
  BY <1>2, <1>5, <1>7, <1>8 DEF LifeInv

(* Nothing is kept that was not: the books of kept contexts stay.           *)
LEMMA MoveKeptFrom ==
  ASSUME TypeOK, BackendsConstructed,
         NEW b \in Addresses, NEW s, NEW l, NEW c, LoaderMove(b, s, l, c), s # "ready", NEW k
  PROVE  KeptContexts' = KeptContexts /\ KeptFrom(k)' = KeptFrom(k)
<1>1. KeptContexts' = KeptContexts
  BY MoveKept
<1>2. \A d \in KeptContexts : origin'[d] = origin[d]
  BY OriginsKept DEF KeptContexts
<1>3. QED
  BY <1>1, <1>2 DEF KeptFrom

LEMMA OpenKeeps ==
  ASSUME LifeInv, NEW b \in Addresses, NEW l \in Libraries, Open(b, l)
  PROVE  LifeInv'
<1>1. TypeOK /\ BackendsConstructed
  BY DEF LifeInv
<1>2. backend[b].step = "absent" /\ Idle
  BY DEF Open, Vacant, Absent, Backend
<1>3. LoaderMove(b, "opened", l, 0)
  BY <1>2, BoundsAssumption DEF LoaderMove, Open, objects, Loading, Ready
<1>4. \A k : LoadingFrom(k)' = (IF l = k THEN LoadingFrom(k) \cup {b} ELSE LoadingFrom(k) \ {b})
  BY <1>1, <1>3, MoveLoading DEF Loading
<1>5. \A k : b \notin LoadingFrom(k)
  BY <1>2 DEF LoadingFrom, Loading
<1>6. \A k : KeptContexts' = KeptContexts /\ KeptFrom(k)' = KeptFrom(k)
  BY <1>1, <1>3, MoveKeptFrom
<1>7. Constructed' = Constructed
  BY <1>1, <1>2, <1>3, MoveConstructedSame
<1>8. opens' = [opens EXCEPT ![l] = @ + 1] /\ alive' = alive /\ used' = used
  BY DEF Open, objects
<1>9. opens' \in [Libraries -> Nat] /\ used' \subseteq Addresses
  BY <1>1, <1>8 DEF TypeOK
<1>10. ASSUME NEW k \in Libraries
       PROVE  opens'[k] = Cardinality(LoadingFrom(k)') + Cardinality(KeptFrom(k)')
  <2>1. opens[k] = Cardinality(LoadingFrom(k)) + Cardinality(KeptFrom(k))
    BY <1>2, AtRest
  <2>2. Cardinality(LoadingFrom(k)) \in Nat /\ Cardinality(KeptFrom(k)) \in Nat
    BY <1>1, BooksCount
  <2>3. CASE k = l
    <3>1. Cardinality(LoadingFrom(k)') = Cardinality(LoadingFrom(k)) + 1
      BY <1>1, <1>4, <1>5, <2>3, BooksFinite, PlusOne
    <3>2. opens'[k] = opens[k] + 1
      BY <1>1, <1>8, <2>3 DEF TypeOK
    <3>3. QED
      BY <1>6, <2>1, <2>2, <3>1, <3>2
  <2>4. CASE k # l
    <3>1. LoadingFrom(k)' = LoadingFrom(k)
      BY <1>4, <1>5, <2>4
    <3>2. opens'[k] = opens[k]
      BY <1>1, <1>8, <2>4 DEF TypeOK
    <3>3. QED
      BY <1>6, <2>1, <3>1, <3>2
  <2>5. QED
    BY <2>3, <2>4
<1>11. alive' = KeptContexts' \cup Constructed'
  BY <1>2, <1>6, <1>7, <1>8, AtRest
<1>12. ~Reuse => b \notin used
  BY DEF Open, Vacant
<1>13. QED
  BY <1>3, <1>8, <1>9, <1>10, <1>11, <1>12, LoaderKeeps

(* The constructor that gives up closes what it opened.                     *)
LEMMA MoveAway ==
  ASSUME LifeInv, NEW b \in Addresses, backend[b].step \in Loading,
         LoaderMove(b, "absent", Nothing, 0),
         opens' = [opens EXCEPT ![backend[b].lib] = @ - 1]
  PROVE  /\ opens' \in [Libraries -> Nat]
         /\ KeptContexts' = KeptContexts
         /\ \A k \in Libraries :
              opens'[k] = Cardinality(LoadingFrom(k)') + Cardinality(KeptFrom(k)')
<1>1. TypeOK /\ BackendsConstructed /\ Idle
  BY DEF LifeInv, LoaderMove
<1>2. backend[b].lib \in Libraries
  BY <1>1 DEF BackendsConstructed
<1>3. \A k : LoadingFrom(k)' = LoadingFrom(k) \ {b}
  <2>1. "absent" \notin Loading
    BY DEF Loading
  <2>2. ASSUME NEW k PROVE LoadingFrom(k)' = LoadingFrom(k) \ {b}
    <3>1. LoadingFrom(k)' = IF Nothing = k /\ "absent" \in Loading THEN LoadingFrom(k) \cup {b}
                           ELSE LoadingFrom(k) \ {b}
      BY <1>1, MoveLoading
    <3>2. QED
      BY <2>1, <3>1
  <2>3. QED
    BY <2>2
<1>4. \A k : KeptContexts' = KeptContexts /\ KeptFrom(k)' = KeptFrom(k)
  BY <1>1, MoveKeptFrom
<1>5. ASSUME NEW k \in Libraries
      PROVE  /\ opens'[k] = Cardinality(LoadingFrom(k)') + Cardinality(KeptFrom(k)')
             /\ opens'[k] \in Nat
  <2>1. opens[k] = Cardinality(LoadingFrom(k)) + Cardinality(KeptFrom(k))
    BY <1>1, AtRest
  <2>2. Cardinality(LoadingFrom(k)) \in Nat /\ Cardinality(KeptFrom(k)) \in Nat
    BY <1>1, BooksCount
  <2>3. CASE k = backend[b].lib
    <3>1. b \in LoadingFrom(k)
      BY <2>3 DEF LoadingFrom
    <3>2. /\ Cardinality(LoadingFrom(k)) = Cardinality(LoadingFrom(k)') + 1
          /\ Cardinality(LoadingFrom(k)') \in Nat
      BY <1>1, <1>3, <3>1, BooksFinite, MinusOne
    <3>3. opens'[k] = opens[k] - 1
      BY <1>1, <2>3 DEF TypeOK
    <3>4. QED
      BY <1>4, <2>1, <2>2, <3>2, <3>3
  <2>4. CASE k # backend[b].lib
    <3>1. LoadingFrom(k)' = LoadingFrom(k)
      <4>1. b \notin LoadingFrom(k)
        BY <2>4 DEF LoadingFrom
      <4>2. QED
        BY <1>3, <4>1
    <3>2. opens'[k] = opens[k]
      BY <1>1, <2>4 DEF TypeOK
    <3>3. QED
      BY <1>4, <2>1, <2>2, <3>1, <3>2
  <2>5. QED
    BY <2>3, <2>4
<1>6. opens' \in [Libraries -> Nat]
  <2>1. opens \in [Libraries -> Nat]
    BY <1>1 DEF TypeOK
  <2>2. DOMAIN opens' = Libraries /\ opens' = [k \in Libraries |-> opens'[k]]
    BY <2>1
  <2>3. QED
    BY <1>5, <2>2
<1>7. QED
  BY <1>4, <1>5, <1>6

LEMMA GiveUpMoves ==
  ASSUME TypeOK, NEW b \in Addresses, Idle, backend[b].step \in Loading,
         backend' = [backend EXCEPT ![b] = Absent],
         UNCHANGED <<objects, live, holds, todo>>
  PROVE  LoaderMove(b, "absent", Nothing, 0)
BY BoundsAssumption DEF LoaderMove, Ready, Loading, objects, Absent

LEMMA GiveUpKeeps ==
  ASSUME LifeInv, NEW b \in Addresses, NEW step \in Loading \ {"created"},
         At(b, step), GiveUp(b)
  PROVE  LifeInv'
<1>1. TypeOK /\ BackendsConstructed /\ Idle
      /\ backend[b].step \in Loading /\ backend[b].step # "created"
  BY DEF LifeInv, At
<1>2. LoaderMove(b, "absent", Nothing, 0)
  BY <1>1, GiveUpMoves DEF GiveUp
<1>3. opens' = [opens EXCEPT ![backend[b].lib] = @ - 1] /\ alive' = alive /\ used' = used
  BY DEF GiveUp, objects
<1>4. /\ opens' \in [Libraries -> Nat]
      /\ KeptContexts' = KeptContexts
      /\ \A k \in Libraries :
           opens'[k] = Cardinality(LoadingFrom(k)') + Cardinality(KeptFrom(k)')
  BY <1>1, <1>2, <1>3, MoveAway
<1>5. Constructed' = Constructed
  BY <1>1, <1>2, MoveConstructedSame
<1>6. alive' = KeptContexts' \cup Constructed' /\ used' \subseteq Addresses
  BY <1>1, <1>3, <1>4, <1>5, AtRest DEF TypeOK
<1>7. QED
  BY <1>2, <1>3, <1>4, <1>6, LoaderKeeps

LEMMA KernelsMissingKeeps ==
  ASSUME LifeInv, NEW b \in Addresses, KernelsMissing(b)
  PROVE  LifeInv'
<1>1. TypeOK /\ BackendsConstructed /\ Idle
      /\ backend[b].step = "created" /\ backend[b].step \in Loading
  BY DEF LifeInv, KernelsMissing, At, Loading
<1>2. LoaderMove(b, "absent", Nothing, 0)
  BY <1>1, GiveUpMoves DEF KernelsMissing
<1>3. /\ opens' = [opens EXCEPT ![backend[b].lib] = @ - 1]
      /\ alive' = alive \ {backend[b].ctx} /\ used' = used
  BY DEF KernelsMissing, objects
<1>4. /\ opens' \in [Libraries -> Nat]
      /\ KeptContexts' = KeptContexts
      /\ \A k \in Libraries :
           opens'[k] = Cardinality(LoadingFrom(k)') + Cardinality(KeptFrom(k)')
  BY <1>1, <1>2, <1>3, MoveAway
<1>5. Constructed' = Constructed \ {backend[b].ctx}
  <2>1. Constructed' =
           (Constructed \ (IF backend[b].step = "created" THEN {backend[b].ctx} ELSE {}))
             \cup (IF "absent" = "created" THEN {0} ELSE {})
    BY <1>1, <1>2, MoveConstructed
  <2>2. QED
    BY <1>1, <2>1
<1>6. backend[b].ctx \notin KeptContexts
  <2>1. backend[b].ctx \in Constructed
    BY <1>1 DEF Constructed
  <2>2. QED
    BY <1>1, <2>1, NotYetKept
<1>7. alive' = KeptContexts' \cup Constructed'
  <2>1. alive = KeptContexts \cup Constructed
    BY <1>1, AtRest
  <2>2. QED
    BY <1>3, <1>4, <1>5, <1>6, <2>1
<1>8. QED
  BY <1>2, <1>3, <1>4, <1>7, LoaderKeeps

LEMMA ProceedIs ==
  ASSUME TypeOK, NEW b \in Addresses, NEW s, Proceed(b, s)
  PROVE  /\ backend' = [backend EXCEPT ![b] = Backend(s, backend[b].lib, backend[b].ctx)]
         /\ backend[b].lib \in Libraries \cup {BuiltIn, Nothing}
         /\ backend[b].ctx \in 0..MaxContexts
         /\ backend[b] = Backend(backend[b].step, backend[b].lib, backend[b].ctx)
<1>1. backend[b] \in [step : Loading \cup {"ready", "absent"},
                      lib : Libraries \cup {BuiltIn, Nothing}, ctx : 0..MaxContexts]
  BY DEF TypeOK
<1>2. [backend[b] EXCEPT !.step = s] = Backend(s, backend[b].lib, backend[b].ctx)
  BY <1>1 DEF Backend
<1>3. backend' = [backend EXCEPT ![b] = [backend[b] EXCEPT !.step = s]]
  BY DEF Proceed
<1>4. backend[b] = Backend(backend[b].step, backend[b].lib, backend[b].ctx)
  BY <1>1 DEF Backend
<1>5. backend[b].lib \in Libraries \cup {BuiltIn, Nothing} /\ backend[b].ctx \in 0..MaxContexts
  BY <1>1
<1>6. QED
  BY <1>2, <1>3, <1>4, <1>5

LEMMA AdvanceKeeps ==
  ASSUME LifeInv, NEW b \in Addresses, NEW from \in Loading \ {"created"},
         At(b, from), NEW s \in Loading \ {"created"}, Proceed(b, s),
         UNCHANGED <<objects, opens, alive, live, holds, todo>>
  PROVE  LifeInv'
<1>1. TypeOK /\ BackendsConstructed /\ Idle
      /\ backend[b].step \in Loading /\ backend[b].step # "created" /\ backend[b].step # "ready"
  BY DEF LifeInv, At, Loading
<1> DEFINE l == backend[b].lib
           c == backend[b].ctx
<1>2. l \in Libraries
  BY <1>1 DEF BackendsConstructed
<1>3. LoaderMove(b, s, l, c) /\ s # "ready" /\ s # "created"
  BY <1>1, <1>2, ProceedIs DEF LoaderMove, Ready, objects, Loading
<1>4. opens' = opens /\ alive' = alive /\ used' = used
  BY DEF objects
<1>5. ASSUME NEW k PROVE LoadingFrom(k)' = LoadingFrom(k)
  <2>1. LoadingFrom(k)' = IF l = k /\ s \in Loading THEN LoadingFrom(k) \cup {b}
                           ELSE LoadingFrom(k) \ {b}
    BY <1>1, <1>3, MoveLoading
  <2>2. b \in LoadingFrom(k) <=> l = k
    BY <1>1 DEF LoadingFrom
  <2>3. QED
    BY <2>1, <2>2
<1>6. Constructed' = Constructed
  BY <1>1, <1>3, MoveConstructedSame
<1> HIDE DEF l, c
<1>7. \A k : KeptContexts' = KeptContexts /\ KeptFrom(k)' = KeptFrom(k)
  BY <1>1, <1>3, MoveKeptFrom
<1>8. /\ used' \subseteq Addresses /\ opens' \in [Libraries -> Nat]
      /\ alive' = KeptContexts' \cup Constructed'
      /\ \A k \in Libraries :
           opens'[k] = Cardinality(LoadingFrom(k)') + Cardinality(KeptFrom(k)')
  BY <1>1, <1>4, <1>5, <1>6, <1>7, AtRest DEF TypeOK
<1>9. ~Reuse => b \notin used
  BY <1>1 DEF LifeInv, TagsTell
<1>10. QED
  BY <1>3, <1>4, <1>8, <1>9, LoaderKeeps

LEMMA PassesKeeps ==
  ASSUME LifeInv, NEW b \in Addresses, NEW from \in Loading \ {"created"}, At(b, from),
         NEW has, NEW s \in Loading \ {"created"}, Passes(b, has, s)
  PROVE  LifeInv'
<1>1. CASE has
  <2>1. Proceed(b, s) /\ UNCHANGED <<objects, opens, alive, live, holds, todo>>
    BY <1>1 DEF Passes
  <2>2. QED
    BY <2>1, AdvanceKeeps
<1>2. CASE ~has
  <2>1. GiveUp(b)
    BY <1>2 DEF Passes
  <2>2. QED
    BY <2>1, GiveUpKeeps
<1>3. QED
  BY <1>1, <1>2

LEMMA CreateKeeps ==
  ASSUME LifeInv, NEW b \in Addresses, Create(b)
  PROVE  LifeInv'
<1>1. TypeOK /\ BackendsConstructed /\ Idle
      /\ backend[b].step \in Loading /\ backend[b].step # "created" /\ backend[b].step # "ready"
  BY DEF LifeInv, Create, At, Loading
<1> DEFINE l == backend[b].lib
<1>2. l \in Libraries
  BY <1>1 DEF BackendsConstructed
<1>3. NewContext \in 0..MaxContexts
  BY <1>1, Domains, BoundsAssumption DEF Create, NewContext
<1>4. LoaderMove(b, "created", l, NewContext)
  BY <1>1, <1>2, <1>3 DEF LoaderMove, Ready, Create, Loading
<1>5. opens' = opens /\ alive' = alive \cup {NewContext} /\ used' = used
  BY DEF Create
<1>6. ASSUME NEW k PROVE LoadingFrom(k)' = LoadingFrom(k)
  <2>1. LoadingFrom(k)' = IF l = k /\ "created" \in Loading THEN LoadingFrom(k) \cup {b}
                           ELSE LoadingFrom(k) \ {b}
    BY <1>1, <1>4, MoveLoading
  <2>2. b \in LoadingFrom(k) <=> l = k
    BY <1>1 DEF LoadingFrom
  <2>3. QED
    BY <2>1, <2>2 DEF Loading
<1> HIDE DEF l
<1>7. Constructed' = Constructed \cup {NewContext}
  <2>1. Constructed' =
           (Constructed \ (IF backend[b].step = "created" THEN {backend[b].ctx} ELSE {}))
             \cup (IF "created" = "created" THEN {NewContext} ELSE {})
    BY <1>1, <1>4, MoveConstructed
  <2>2. QED
    BY <1>1, <2>1
<1>8. \A k : KeptContexts' = KeptContexts /\ KeptFrom(k)' = KeptFrom(k)
  BY <1>1, <1>4, MoveKeptFrom
<1>9. /\ used' \subseteq Addresses /\ opens' \in [Libraries -> Nat]
      /\ \A k \in Libraries :
           opens'[k] = Cardinality(LoadingFrom(k)') + Cardinality(KeptFrom(k)')
  BY <1>1, <1>5, <1>6, <1>8, AtRest DEF TypeOK
<1>10. alive' = KeptContexts' \cup Constructed'
  <2>1. alive = KeptContexts \cup Constructed
    BY <1>1, AtRest
  <2>2. QED
    BY <1>5, <1>7, <1>8, <2>1
<1>11. ~Reuse => b \notin used
  BY <1>1 DEF LifeInv, TagsTell
<1>12. QED
  BY <1>4, <1>5, <1>9, <1>10, <1>11, LoaderKeeps

LEMMA FinishKeeps ==
  ASSUME LifeInv, NEW b \in Addresses, Finish(b)
  PROVE  LifeInv'
<1>1. TypeOK /\ BackendsConstructed /\ Idle
      /\ backend[b].step = "created" /\ Proceed(b, "ready")
  BY DEF LifeInv, Finish, At
<1> DEFINE l == backend[b].lib
           c == backend[b].ctx
<1>2. l \in Libraries /\ c \in Contexts /\ origin[c] = l
  BY <1>1 DEF BackendsConstructed, HasContext, Loading
<1>3. LoaderMove(b, "ready", l, c)
  <2>1. backend[b] = Backend("created", l, c) /\ c \in 0..MaxContexts
        /\ backend' = [backend EXCEPT ![b] = Backend("ready", l, c)]
    BY <1>1, ProceedIs
  <2>2. "ready" \notin Loading /\ "ready" # "created"
    BY DEF Loading
  <2>3. QED
    BY <1>1, <1>2, <2>1, <2>2 DEF LoaderMove, Finish, Ready
<1>4. opens' = opens /\ alive' = alive /\ used' = used \cup {b} /\ origin' = origin
  BY DEF Finish
<1>5. ASSUME NEW k PROVE LoadingFrom(k)' = LoadingFrom(k) \ {b}
  <2>1. LoadingFrom(k)' = IF l = k /\ "ready" \in Loading THEN LoadingFrom(k) \cup {b}
                           ELSE LoadingFrom(k) \ {b}
    BY <1>1, <1>3, MoveLoading
  <2>2. QED
    BY <2>1 DEF Loading
<1>6. c \in Constructed
  BY <1>1 DEF Constructed
<1>7. \A k : b \in LoadingFrom(k) <=> k = l
  BY <1>1 DEF LoadingFrom, Loading
<1> HIDE DEF l
<1>8. Constructed' = Constructed \ {c}
  <2>1. Constructed' =
           (Constructed \ (IF backend[b].step = "created" THEN {backend[b].ctx} ELSE {}))
             \cup (IF "ready" = "created" THEN {c} ELSE {})
    BY <1>1, <1>3, MoveConstructed
  <2>2. QED
    BY <1>1, <2>1
<1> HIDE DEF c
<1>9. c \in Contexts'
  BY <1>2, <1>4 DEF Contexts
<1>10. KeptContexts' = KeptContexts \cup {c}
  <2>1. KeptContexts' = IF "ready" = "ready" THEN KeptContexts \cup {c} ELSE KeptContexts
    BY <1>1, <1>3, <1>9, MoveKept
  <2>2. QED
    BY <2>1
<1>11. c \notin KeptContexts
  BY <1>1, <1>6, NotYetKept
<1>12. \A k : KeptFrom(k)' = IF k = l THEN KeptFrom(k) \cup {c} ELSE KeptFrom(k)
  BY <1>2, <1>4, <1>10 DEF KeptFrom
<1>13. \A k : c \notin KeptFrom(k)
  BY <1>11 DEF KeptFrom
<1>14. ASSUME NEW k \in Libraries
       PROVE  opens'[k] = Cardinality(LoadingFrom(k)') + Cardinality(KeptFrom(k)')
  <2>1. opens[k] = Cardinality(LoadingFrom(k)) + Cardinality(KeptFrom(k))
    BY <1>1, AtRest
  <2>2. CASE k = l
    <3>1. /\ Cardinality(LoadingFrom(k)) = Cardinality(LoadingFrom(k)') + 1
          /\ Cardinality(LoadingFrom(k)') \in Nat
      BY <1>1, <1>5, <1>7, <2>2, BooksFinite, MinusOne
    <3>2. /\ Cardinality(KeptFrom(k)') = Cardinality(KeptFrom(k)) + 1
          /\ Cardinality(KeptFrom(k)) \in Nat
      BY <1>1, <1>12, <1>13, <2>2, BooksFinite, PlusOne
    <3>3. QED
      BY <1>4, <2>1, <3>1, <3>2
  <2>3. CASE k # l
    <3>1. LoadingFrom(k)' = LoadingFrom(k) /\ KeptFrom(k)' = KeptFrom(k)
      BY <1>5, <1>7, <1>12, <2>3
    <3>2. QED
      BY <1>4, <2>1, <3>1
  <2>4. QED
    BY <2>2, <2>3
<1>15. alive' = KeptContexts' \cup Constructed'
  <2>1. alive = KeptContexts \cup Constructed
    BY <1>1, AtRest
  <2>2. QED
    BY <1>4, <1>6, <1>8, <1>10, <2>1
<1>16. used' \subseteq Addresses /\ opens' \in [Libraries -> Nat]
  BY <1>1, <1>4 DEF TypeOK
<1>17. ~Reuse => b \notin used
  BY <1>1 DEF LifeInv, TagsTell, Loading
<1>18. QED
  BY <1>3, <1>4, <1>14, <1>15, <1>16, <1>17, LoaderKeeps

LEMMA ConstructBuiltinKeeps ==
  ASSUME LifeInv, NEW b \in Addresses, ConstructBuiltin(b)
  PROVE  LifeInv'
<1>1. TypeOK /\ BackendsConstructed /\ Idle /\ backend[b].step = "absent"
  BY DEF LifeInv, ConstructBuiltin, Vacant, Absent, Backend
<1> DEFINE c == NewContext
<1>2. c \in 0..MaxContexts
  BY <1>1, Domains, BoundsAssumption DEF ConstructBuiltin, NewContext
<1>3. LoaderMove(b, "ready", BuiltIn, c)
  BY <1>1, <1>2 DEF LoaderMove, ConstructBuiltin, Ready, Loading
<1>4. /\ opens' = opens /\ alive' = alive \cup {c} /\ used' = used \cup {b}
      /\ origin' = Append(origin, BuiltIn)
  BY DEF ConstructBuiltin
<1>5. ASSUME NEW k PROVE LoadingFrom(k)' = LoadingFrom(k)
  <2>1. LoadingFrom(k)' = IF BuiltIn = k /\ "ready" \in Loading THEN LoadingFrom(k) \cup {b}
                           ELSE LoadingFrom(k) \ {b}
    BY <1>1, <1>3, MoveLoading
  <2>2. b \notin LoadingFrom(k)
    BY <1>1 DEF LoadingFrom, Loading
  <2>3. QED
    BY <2>1, <2>2 DEF Loading
<1>6. Constructed' = Constructed
  BY <1>1, <1>3, MoveConstructedSame
<1>7. c \in Contexts' /\ origin'[c] = BuiltIn /\ \A d \in Contexts : origin'[d] = origin[d]
  <2>1. origin \in Seq(Libraries \cup {BuiltIn}) /\ BuiltIn \in Libraries \cup {BuiltIn}
    BY <1>1 DEF TypeOK
  <2>2. /\ DOMAIN origin' = DOMAIN origin \cup {Len(origin) + 1}
        /\ \A k \in DOMAIN origin : origin'[k] = origin[k]
        /\ origin'[Len(origin) + 1] = BuiltIn
    BY <1>4, <2>1, Appended
  <2>3. QED
    BY <2>2 DEF Contexts, NewContext
<1>8. KeptContexts' = KeptContexts \cup {c}
  <2>1. KeptContexts' = IF "ready" = "ready" THEN KeptContexts \cup {c} ELSE KeptContexts
    BY <1>1, <1>3, <1>7, MoveKept
  <2>2. QED
    BY <2>1
<1>9. \A k \in Libraries : KeptFrom(k)' = KeptFrom(k)
  <2>1. KeptContexts \subseteq Contexts
    BY DEF KeptContexts
  <2>2. QED
    BY <1>7, <1>8, <2>1, NamesAssumption DEF KeptFrom
<1>10. /\ used' \subseteq Addresses /\ opens' \in [Libraries -> Nat]
       /\ \A k \in Libraries :
            opens'[k] = Cardinality(LoadingFrom(k)') + Cardinality(KeptFrom(k)')
  BY <1>1, <1>4, <1>5, <1>9, AtRest DEF TypeOK
<1>11. alive' = KeptContexts' \cup Constructed'
  <2>1. alive = KeptContexts \cup Constructed
    BY <1>1, AtRest
  <2>2. QED
    BY <1>4, <1>6, <1>8, <2>1
<1>12. ~Reuse => b \notin used
  BY DEF ConstructBuiltin, Vacant
<1>13. QED
  BY <1>3, <1>4, <1>10, <1>11, <1>12, LoaderKeeps

-----------------------------------------------------------------------------
(* Entities.                                                               *)
Gained(x) == IF x = Nothing THEN {} ELSE {x.buffer}

(* An entity that takes another buffer frees the one it had unless another  *)
(* entity holds it.                                                        *)
LEMMA RebindFrees ==
  ASSUME TypeOK, NEW e \in Entities, NEW x, Rebind(e, x)
  PROVE  \/ todo' = << >> /\ Held' = Held \cup Gained(x)
         \/ \E y \in Held \ Held' :
              todo' = <<Call("free", y)>> /\ Held' \cup {y} = Held \cup Gained(x)
<1>1. holds' = [holds EXCEPT ![e] = x] /\ DOMAIN holds = Entities
  BY DEF Rebind, TypeOK
<1>2. holds'[e] = x /\ \A f \in Entities \ {e} : holds'[f] = holds[f]
  BY <1>1
<1>3. Held' = {holds[f].buffer : f \in {g \in Entities \ {e} : holds[g] # Nothing}} \cup Gained(x)
  BY <1>2 DEF Held, Gained
<1>4. Held = {holds[f].buffer : f \in {g \in Entities \ {e} : holds[g] # Nothing}} \cup Gained(holds[e])
  BY DEF Held, Gained
<1>5. (\E f \in Entities : holds'[f] # Nothing /\ holds'[f].buffer = holds[e].buffer)
        <=> holds[e].buffer \in Held'
  BY DEF Held
<1>6. todo' = IF holds[e] = Nothing \/ holds[e].buffer \in Held' THEN << >>
              ELSE <<Call("free", holds[e].buffer)>>
  BY <1>5 DEF Rebind, Released
<1>7. CASE holds[e] = Nothing \/ holds[e].buffer \in Held'
  <2>1. todo' = << >>
    BY <1>6, <1>7
  <2>2. Held' = Held \cup Gained(x)
    BY <1>3, <1>4, <1>7 DEF Gained
  <2>3. QED
    BY <2>1, <2>2
<1>8. CASE ~(holds[e] = Nothing \/ holds[e].buffer \in Held')
  <2> DEFINE y == holds[e].buffer
  <2>1. y \in Held \ Held'
    BY <1>4, <1>8 DEF Gained
  <2>2. todo' = <<Call("free", y)>>
    BY <1>6, <1>8
  <2>3. Held' \cup {y} = Held \cup Gained(x)
    BY <1>3, <1>4, <1>8 DEF Gained
  <2> HIDE DEF y
  <2>4. QED
    BY <2>1, <2>2, <2>3
<1>9. QED
  BY <1>7, <1>8

(* Everything but the buffers stays in the books.                           *)
SameContexts ==
  /\ KeptContexts' = KeptContexts
  /\ Constructed' = Constructed
  /\ \A k : LoadingFrom(k)' = LoadingFrom(k) /\ KeptFrom(k)' = KeptFrom(k)

LEMMA SameContextsKept ==
  ASSUME UNCHANGED <<origin, maker, backend, live>>
  PROVE  SameContexts
<1>1. KeptContexts' = KeptContexts
  BY DEF KeptContexts, Kept, Contexts
<1>2. QED
  BY <1>1 DEF SameContexts, Constructed, LoadingFrom, KeptFrom

LEMMA AllocateTyped ==
  ASSUME TypeOK, BackendsConstructed, NEW b \in Addresses, Allocate(b)
  PROVE  /\ maker' \in Seq(Contexts)
         /\ Buffers' = Buffers \cup {NewBuffer}
         /\ \A x \in Buffers : maker'[x] = maker[x]
         /\ maker'[NewBuffer] = backend[b].ctx
         /\ live' = live \cup {NewBuffer} /\ live' \subseteq Buffers'
         /\ NewBuffer \notin Buffers
<1>1. backend[b].ctx \in Contexts /\ maker \in Seq(Contexts)
  BY DEF BackendsConstructed, HasContext, Allocate, Ready, TypeOK
<1>2. maker' = Append(maker, backend[b].ctx)
  BY DEF Allocate
<1>3. /\ maker' \in Seq(Contexts)
      /\ DOMAIN maker' = DOMAIN maker \cup {Len(maker) + 1}
      /\ \A x \in DOMAIN maker : maker'[x] = maker[x]
      /\ maker'[Len(maker) + 1] = backend[b].ctx
  BY <1>1, <1>2, Appended
<1>4. QED
  BY <1>3, Domains DEF Buffers, NewBuffer, Allocate, TypeOK

LEMMA AllocateKeeps ==
  ASSUME TypeOK, BackendsConstructed, NEW b \in Addresses, Allocate(b)
  PROVE  SameContexts /\ BackendsConstructed'
<1>1. UNCHANGED <<backend, origin>> /\ backend[b].step = "ready" /\ Contexts' = Contexts
  BY DEF Allocate, Ready, Contexts
<1>2. /\ Buffers' = Buffers \cup {NewBuffer}
      /\ \A x \in Buffers : maker'[x] = maker[x]
      /\ maker'[NewBuffer] = backend[b].ctx
      /\ live' = live \cup {NewBuffer}
  BY AllocateTyped
<1>3. ASSUME NEW c \in Contexts
      PROVE  Kept(c, backend, live)' <=> Kept(c, backend, live)
  <2>1. live \subseteq Buffers
    BY DEF TypeOK
  <2>2. QED
    BY <1>1, <1>2, <2>1 DEF Kept
<1>4. SameContexts
  BY <1>1, <1>3 DEF SameContexts, KeptContexts, Constructed, LoadingFrom, KeptFrom
<1>5. \A a \in Addresses : backend[a].step = "created" => backend[a].ctx # backend[b].ctx
  BY <1>1 DEF BackendsConstructed, HasContext
<1>6. \A a \in Addresses, x \in Buffers' :
        backend'[a].step = "created" => maker'[x] # backend'[a].ctx
  BY <1>1, <1>2, <1>5 DEF BackendsConstructed
<1>7. QED
  BY <1>1, <1>4, <1>6 DEF BackendsConstructed, HasContext

(* What an entity takes was made by the backend it is tagged with.          *)
LEMMA EntityTags ==
  ASSUME TypeOK, TagsTell, NEW e \in Entities, NEW x, UNCHANGED <<backend, used>>,
         holds' = [holds EXCEPT ![e] = x],
         \A y \in Buffers : maker'[y] = maker[y],
         x # Nothing =>
           /\ x.owner \in used
           /\ \A b \in Addresses : Ready(b) /\ x.owner = b => maker'[x.buffer] = backend[b].ctx
  PROVE  TagsTell'
<1>1. holds'[e] = x /\ \A f \in Entities \ {e} : holds'[f] = holds[f]
  BY DEF TypeOK
<1>2. \A f \in Entities : holds'[f] # Nothing => holds'[f].owner \in used'
  BY <1>1 DEF TagsTell
<1>3. \A b \in Addresses : Ready(b)' <=> Ready(b)
  BY DEF Ready
<1>4. ASSUME NEW b \in Addresses, NEW f \in Entities, Ready(b),
             holds'[f] # Nothing, holds'[f].owner = b
      PROVE  maker'[holds'[f].buffer] = backend'[b].ctx
  <2>1. CASE f = e
    BY <1>1, <1>4, <2>1
  <2>2. CASE f # e
    <3>1. holds'[f] = holds[f]
      BY <1>1, <2>2
    <3>2. maker[holds[f].buffer] = backend[b].ctx
      BY <1>4, <3>1 DEF TagsTell, OwnerTagSeparates, Accepts
    <3>3. holds[f].buffer \in Buffers
      BY <1>4, <3>1 DEF TypeOK
    <3>4. QED
      BY <3>1, <3>2, <3>3
  <2>3. QED
    BY <2>1, <2>2
<1>5. OwnerTagSeparates'
  BY <1>3, <1>4 DEF OwnerTagSeparates, Accepts
<1>6. QED
  BY <1>2, <1>3, <1>5 DEF TagsTell

LEMMA TakeTags ==
  ASSUME LifeInv, TagsTell, NEW b \in Addresses, NEW e \in Entities, Allocate(b),
         Rebind(e, [buffer |-> NewBuffer, owner |-> b])
  PROVE  TagsTell'
<1> DEFINE x == [buffer |-> NewBuffer, owner |-> b]
<1>1. TypeOK /\ BackendsConstructed /\ Ready(b) /\ UNCHANGED <<backend, used>>
  BY DEF LifeInv, Allocate
<1>2. (\A y \in Buffers : maker'[y] = maker[y]) /\ maker'[NewBuffer] = backend[b].ctx
  BY <1>1, AllocateTyped
<1>3. x.owner = b /\ x.buffer = NewBuffer /\ b \in used
  BY <1>1 DEF TagsTell
<1>4. holds' = [holds EXCEPT ![e] = x]
  BY DEF Rebind
<1> HIDE DEF x
<1>5. QED
  BY <1>1, <1>2, <1>3, <1>4, EntityTags

LEMMA ShareTags ==
  ASSUME TypeOK, TagsTell, NEW e \in Entities, NEW x, Rebind(e, x),
         x = Nothing \/ \E f \in Entities : x = holds[f],
         UNCHANGED <<backend, used, maker>>
  PROVE  TagsTell'
<1>1. holds' = [holds EXCEPT ![e] = x]
  BY DEF Rebind
<1>2. x # Nothing =>
        /\ x.owner \in used
        /\ \A b \in Addresses : Ready(b) /\ x.owner = b => maker'[x.buffer] = backend[b].ctx
  BY DEF TagsTell, OwnerTagSeparates, Accepts
<1>3. QED
  BY <1>1, <1>2, EntityTags

LEMMA DestructTags ==
  ASSUME TypeOK, TagsTell, NEW b \in Addresses, Destruct(b)
  PROVE  TagsTell'
<1>1. /\ backend' = [backend EXCEPT ![b] = Absent] /\ UNCHANGED <<used, maker, holds>>
  BY DEF Destruct, objects
<1>2. Absent.step = "absent" /\ "absent" \notin Loading
  BY DEF Absent, Backend, Loading
<1>3. \A a \in Addresses : backend'[a] = Absent \/ backend'[a] = backend[a]
  BY <1>1 DEF TypeOK
<1>4. QED
  BY <1>1, <1>2, <1>3 DEF TagsTell, OwnerTagSeparates, Ready, Accepts

LEMMA SameTags ==
  ASSUME TypeOK, TagsTell, UNCHANGED <<backend, used, holds>>,
         \A y \in Buffers : maker'[y] = maker[y]
  PROVE  TagsTell'
<1>1. \A e \in Entities : holds[e] # Nothing => holds[e].buffer \in Buffers
  BY DEF TypeOK
<1>2. QED
  BY <1>1 DEF TagsTell, OwnerTagSeparates, Ready, Accepts

(* An operation on entities keeps the books.                                *)
LEMMA EntityKeeps ==
  ASSUME LifeInv, Idle, UNCHANGED <<exports, backend, used, opens, origin, alive>>,
         SameContexts, maker' \in Seq(Contexts), Buffers \subseteq Buffers', live' \subseteq Buffers',
         holds' \in [Entities -> {Nothing} \cup [buffer : Buffers', owner : Addresses]],
         \/ todo' = << >> /\ live' = Held'
         \/ \E y \in live' \ Held' : todo' = <<Call("free", y)>> /\ live' = Held' \cup {y}
  PROVE  TypeOK' /\ OneChain' /\ Accounted'
<1>1. TypeOK /\ Contexts' = Contexts
  BY DEF LifeInv, Contexts
<1>2. live' = Held' \cup Owed("free")' /\ Owed("destroy")' = {} /\ Owed("close")' = {}
  <2>1. CASE todo' = << >> /\ live' = Held'
    BY <2>1, NothingOwed
  <2>2. ASSUME NEW y \in live' \ Held', todo' = <<Call("free", y)>>, live' = Held' \cup {y}
        PROVE  live' = Held' \cup Owed("free")' /\ Owed("destroy")' = {} /\ Owed("close")' = {}
    <3>1. Owed("free")' = {y} /\ Owed("destroy")' = {} /\ Owed("close")' = {}
      BY <2>2, OwedIs, OwedByOne
    <3>2. QED
      BY <2>2, <3>1
  <2>3. QED
    BY <2>1, <2>2
<1>3. Accounted'
  <2>1. alive' = KeptContexts' \cup Constructed'
    BY <1>1, AtRest DEF SameContexts
  <2>2. \A l \in Libraries :
          /\ opens'[l] = Cardinality(LoadingFrom(l)') + Cardinality(KeptFrom(l)')
          /\ opens'[l] \in Nat
    BY <1>1, AtRest DEF SameContexts, TypeOK
  <2>3. \A l \in Libraries :
          opens'[l] = Cardinality(LoadingFrom(l)') + Cardinality(KeptFrom(l)')
                      + (IF l \in Owed("close")' THEN 1 ELSE 0)
    BY <1>2, <2>2
  <2>4. QED
    BY <1>2, <2>1, <2>3 DEF Accounted
<1>4. OneChain'
  BY DEF OneChain, Idle
<1>5. todo' \in Seq([op : {"free"}, of : Buffers'] \cup [op : {"destroy"}, of : Contexts']
                    \cup [op : {"close"}, of : Libraries])
  <2> DEFINE Calls == [op : {"free"}, of : Buffers'] \cup [op : {"destroy"}, of : Contexts']
                        \cup [op : {"close"}, of : Libraries]
  <2>1. \A y \in Buffers' : Call("free", y) \in Calls
    BY DEF Call
  <2> HIDE DEF Calls
  <2>2. todo' \in Seq(Calls)
    <3>1. << >> \in Seq(Calls) /\ \A k \in Calls : <<k>> \in Seq(Calls)
      OBVIOUS
    <3>2. todo' = << >> \/ \E y \in Buffers' : todo' = <<Call("free", y)>>
      OBVIOUS
    <3>3. QED
      BY <2>1, <3>1, <3>2
  <2>3. QED
    BY <2>2 DEF Calls
<1>6. TypeOK'
  BY <1>1, <1>5 DEF TypeOK
<1>7. QED
  BY <1>3, <1>4, <1>6

LEMMA BuffersNumbered == TypeOK => Buffers \subseteq Nat /\ NewBuffer \in Nat
BY DEF TypeOK, Buffers, NewBuffer

LEMMA FreshHeld ==
  ASSUME TypeOK, NEW b \in Addresses
  PROVE  LET x == [buffer |-> NewBuffer, owner |-> b]
         IN  x # Nothing /\ x.buffer = NewBuffer
BY BuffersNumbered, NamesAssumption

(* An entity takes the buffer just made.                                    *)
LEMMA TakeKeeps ==
  ASSUME LifeInv, NEW b \in Addresses, NEW e \in Entities, Allocate(b),
         Rebind(e, [buffer |-> NewBuffer, owner |-> b])
  PROVE  LifeInv'
<1> DEFINE x == [buffer |-> NewBuffer, owner |-> b]
<1>1. TypeOK /\ BackendsConstructed /\ Idle
      /\ UNCHANGED <<exports, backend, used, opens, origin, alive>>
  BY DEF LifeInv, Allocate
<1>2. SameContexts /\ BackendsConstructed'
  BY <1>1, AllocateKeeps
<1>3. /\ maker' \in Seq(Contexts) /\ Buffers \subseteq Buffers' /\ live' \subseteq Buffers'
      /\ NewBuffer \in Buffers' /\ live' = live \cup {NewBuffer}
  BY <1>1, AllocateTyped
<1>4. Gained(x) = {NewBuffer}
  BY <1>1, FreshHeld DEF Gained
<1>5. x \in [buffer : Buffers', owner : Addresses]
  BY <1>3
<1>6. holds' = [holds EXCEPT ![e] = x] /\ Rebind(e, x)
  BY DEF Rebind
<1> HIDE DEF x
<1>7. holds' \in [Entities -> {Nothing} \cup [buffer : Buffers', owner : Addresses]]
  <2>1. holds \in [Entities -> {Nothing} \cup [buffer : Buffers', owner : Addresses]]
    BY <1>1, <1>3 DEF TypeOK
  <2>2. QED
    BY <1>5, <1>6, <2>1
<1>8. live = Held
  BY <1>1, AtRest
<1>9. \/ todo' = << >> /\ live' = Held'
      \/ \E y \in live' \ Held' : todo' = <<Call("free", y)>> /\ live' = Held' \cup {y}
  <2>1. \/ todo' = << >> /\ Held' = Held \cup Gained(x)
        \/ \E y \in Held \ Held' :
             todo' = <<Call("free", y)>> /\ Held' \cup {y} = Held \cup Gained(x)
    BY <1>1, <1>6, RebindFrees
  <2>2. QED
    BY <1>3, <1>4, <1>8, <2>1
<1>10. ~Reuse => TagsTell'
  BY TakeTags DEF LifeInv
<1>11. TypeOK' /\ OneChain' /\ Accounted'
  BY <1>1, <1>2, <1>3, <1>7, <1>9, EntityKeeps
<1>12. QED
  BY <1>2, <1>10, <1>11 DEF LifeInv

LEMMA TransformFailsKeeps ==
  ASSUME LifeInv, NEW b \in Addresses, TransformFails(b)
  PROVE  LifeInv'
<1>1. TypeOK /\ BackendsConstructed /\ Idle /\ Allocate(b)
      /\ UNCHANGED <<exports, backend, used, opens, origin, alive>>
  BY DEF LifeInv, TransformFails, Allocate
<1>2. SameContexts /\ BackendsConstructed'
  BY <1>1, AllocateKeeps
<1>3. /\ maker' \in Seq(Contexts) /\ Buffers' = Buffers \cup {NewBuffer} /\ live' \subseteq Buffers'
      /\ live' = live \cup {NewBuffer} /\ NewBuffer \notin Buffers
  BY <1>1, AllocateTyped
<1>4. holds' = holds /\ todo' = <<Call("free", NewBuffer)>>
  BY DEF TransformFails
<1>5. holds' \in [Entities -> {Nothing} \cup [buffer : Buffers', owner : Addresses]]
  BY <1>1, <1>3, <1>4 DEF TypeOK
<1>6. live = Held /\ Held' = Held
  BY <1>1, <1>4, AtRest DEF Held
<1>7. NewBuffer \in live' \ Held' /\ live' = Held' \cup {NewBuffer}
  BY <1>1, <1>3, <1>6 DEF TypeOK
<1>8. TypeOK' /\ OneChain' /\ Accounted'
  BY <1>1, <1>2, <1>3, <1>4, <1>5, <1>7, EntityKeeps
<1>9. ~Reuse => TagsTell'
  BY <1>1, <1>4, AllocateTyped, SameTags DEF LifeInv
<1>10. QED
  BY <1>2, <1>8, <1>9 DEF LifeInv

(* An entity takes a buffer another one has, or none.                       *)
LEMMA ShareKeeps ==
  ASSUME LifeInv, NEW e \in Entities, NEW x, Idle, Rebind(e, x),
         x = Nothing \/ \E f \in Entities : x = holds[f],
         UNCHANGED <<objects, backend, opens, alive, live>>
  PROVE  LifeInv'
<1>1. TypeOK /\ BackendsConstructed
      /\ UNCHANGED <<exports, backend, used, opens, origin, alive, maker, live>>
  BY DEF LifeInv, objects
<1>2. SameContexts
  BY <1>1, SameContextsKept
<1>3. BackendsConstructed' /\ Buffers' = Buffers
  BY <1>1 DEF BackendsConstructed, HasContext, Contexts, Buffers
<1>4. maker' \in Seq(Contexts) /\ Buffers \subseteq Buffers' /\ live' \subseteq Buffers'
  BY <1>1, <1>3 DEF TypeOK
<1>5. x \in {Nothing} \cup [buffer : Buffers', owner : Addresses]
  BY <1>1, <1>3 DEF TypeOK
<1>6. holds' \in [Entities -> {Nothing} \cup [buffer : Buffers', owner : Addresses]]
  <2>1. holds \in [Entities -> {Nothing} \cup [buffer : Buffers', owner : Addresses]]
    BY <1>1, <1>3 DEF TypeOK
  <2>2. QED
    BY <1>5, <2>1 DEF Rebind
<1>7. live = Held /\ Gained(x) \subseteq Held
  BY <1>1, AtRest DEF Gained, Held
<1>8. \/ todo' = << >> /\ live' = Held'
      \/ \E y \in live' \ Held' : todo' = <<Call("free", y)>> /\ live' = Held' \cup {y}
  <2>1. \/ todo' = << >> /\ Held' = Held \cup Gained(x)
        \/ \E y \in Held \ Held' :
             todo' = <<Call("free", y)>> /\ Held' \cup {y} = Held \cup Gained(x)
    BY <1>1, RebindFrees
  <2>2. QED
    BY <1>1, <1>7, <2>1
<1>9. TypeOK' /\ OneChain' /\ Accounted'
  BY <1>1, <1>2, <1>3, <1>4, <1>6, <1>8, EntityKeeps
<1>10. ~Reuse => TagsTell'
  BY <1>1, ShareTags DEF LifeInv
<1>11. QED
  BY <1>3, <1>9, <1>10 DEF LifeInv

-----------------------------------------------------------------------------
(* Destructors.                                                            *)

(* Context c loses one of those that keep it, perhaps the last.             *)
LEMMA ShareGoes ==
  ASSUME LifeInv, NEW c \in KeptContexts,
         UNCHANGED <<objects, opens, alive, holds>>,
         Owed("destroy") = {}, Owed("close") = {},
         Constructed' = Constructed, \A k : LoadingFrom(k)' = LoadingFrom(k),
         KeptContexts' = KeptContexts \/ KeptContexts' = KeptContexts \ {c},
         todo' = IF c \in KeptContexts' THEN << >> ELSE CoreDestructor(c),
         live' = Held', live' \subseteq live,
         backend' \in [Addresses ->
              [step : Loading \cup {"ready", "absent"},
               lib : Libraries \cup {BuiltIn, Nothing}, ctx : 0..MaxContexts]]
  PROVE  TypeOK' /\ OneChain' /\ Accounted'
<1>1. /\ TypeOK /\ BackendsConstructed /\ Accounted
      /\ UNCHANGED <<exports, used, origin, maker, opens, alive, holds>>
      /\ Contexts' = Contexts /\ Buffers' = Buffers
  BY DEF LifeInv, objects, Contexts, Buffers
<1>2. c \in Contexts
  BY DEF KeptContexts
<1>3. TypeOK'
  <2>1. todo' \in Seq([op : {"free"}, of : Buffers] \cup [op : {"destroy"}, of : Contexts]
                        \cup [op : {"close"}, of : Libraries])
    BY <1>1, <1>2, CoreDestructorTyped
  <2>2. live' \subseteq Buffers'
    BY <1>1 DEF TypeOK
  <2>3. QED
    BY <1>1, <2>1, <2>2 DEF TypeOK
<1>4. /\ alive = KeptContexts \cup Constructed
      /\ \A k \in Libraries :
           opens[k] = Cardinality(LoadingFrom(k)) + Cardinality(KeptFrom(k))
  <2>1. \A k \in Libraries :
          opens[k] = Cardinality(LoadingFrom(k)) + Cardinality(KeptFrom(k)) + 0
    BY <1>1 DEF Accounted
  <2>2. QED
    BY <1>1, <2>1, BooksCount DEF Accounted
<1>5. CASE c \in KeptContexts'
  <2>1. KeptContexts' = KeptContexts /\ todo' = << >>
    BY <1>5
  <2>2. \A k : KeptFrom(k)' = KeptFrom(k)
    BY <1>1, <2>1 DEF KeptFrom
  <2>3. QED
    BY <1>1, <1>3, <1>4, <2>1, <2>2, StillAtRest
<1>6. CASE c \notin KeptContexts'
  <2>1. KeptContexts' = KeptContexts \ {c} /\ todo' = CoreDestructor(c)
    BY <1>6
  <2>2. /\ Owed("free")' = {} /\ Owed("destroy")' = {c}
        /\ Owed("close")' = IF origin[c] = BuiltIn THEN {} ELSE {origin[c]}
    BY <2>1, OwedIs, OwedByCore
  <2>3. c \in alive' \ (KeptContexts' \cup Constructed')
    <3>1. c \notin Constructed
      BY <1>1, NotYetKept
    <3>2. QED
      BY <1>1, <1>4, <2>1, <3>1
  <2>4. OneChain'
    <3>1. todo' = CoreDestructor(c)'
      BY <1>1, <2>1 DEF CoreDestructor
    <3>2. QED
      BY <2>3, <3>1 DEF OneChain
  <2>5. alive' = KeptContexts' \cup Constructed' \cup Owed("destroy")'
    BY <1>1, <1>4, <2>1, <2>2
  <2>6. ASSUME NEW k \in Libraries
        PROVE  opens'[k] = Cardinality(LoadingFrom(k)') + Cardinality(KeptFrom(k)')
                             + (IF k \in Owed("close")' THEN 1 ELSE 0)
    <3>1. KeptFrom(k)' = KeptFrom(k) \ {c}
      BY <1>1, <2>1 DEF KeptFrom
    <3>2. opens'[k] = Cardinality(LoadingFrom(k)) + Cardinality(KeptFrom(k))
      BY <1>1, <1>4
    <3>3. Cardinality(LoadingFrom(k)) \in Nat /\ Cardinality(KeptFrom(k)) \in Nat
      BY <1>1, BooksCount
    <3>4. CASE origin[c] = k
      <4>1. c \in KeptFrom(k) /\ k \in Owed("close")'
        BY <2>2, <3>4, NamesAssumption DEF KeptFrom
      <4>2. /\ Cardinality(KeptFrom(k)) = Cardinality(KeptFrom(k)') + 1
            /\ Cardinality(KeptFrom(k)') \in Nat
        BY <1>1, <3>1, <4>1, BooksFinite, MinusOne
      <4>3. QED
        BY <3>2, <3>3, <4>1, <4>2
    <3>5. CASE origin[c] # k
      <4>1. c \notin KeptFrom(k) /\ k \notin Owed("close")'
        BY <2>2, <3>5 DEF KeptFrom
      <4>2. KeptFrom(k)' = KeptFrom(k)
        BY <3>1, <4>1
      <4>3. QED
        BY <3>2, <3>3, <4>1, <4>2
    <3>6. QED
      BY <3>4, <3>5
  <2>7. live' = Held' \cup Owed("free")'
    BY <2>2
  <2>8. Accounted'
    BY <2>5, <2>6, <2>7 DEF Accounted
  <2>9. QED
    BY <1>3, <2>4, <2>8
<1>7. QED
  BY <1>5, <1>6

LEMMA DestructKeeps ==
  ASSUME LifeInv, NEW b \in Addresses, Destruct(b)
  PROVE  LifeInv'
<1>1. /\ TypeOK /\ BackendsConstructed /\ Idle /\ backend[b].step = "ready"
      /\ UNCHANGED <<objects, opens, alive, live, holds>>
      /\ UNCHANGED <<origin, maker>>
      /\ backend' = [backend EXCEPT ![b] = Absent]
  BY DEF LifeInv, Destruct, Ready, objects
<1>0. PICK c : c = backend[b].ctx
  OBVIOUS
<1> DEFINE Objects == [step : Loading \cup {"ready", "absent"},
                       lib : Libraries \cup {BuiltIn, Nothing}, ctx : 0..MaxContexts]
<1>2. backend' \in [Addresses -> Objects] /\ backend'[b] = Absent
      /\ \A a \in Addresses \ {b} : backend'[a] = backend[a]
  <2>1. Absent \in Objects
    BY BoundsAssumption DEF Absent, Backend
  <2>2. backend \in [Addresses -> Objects]
    BY <1>1 DEF TypeOK
  <2> HIDE DEF Objects
  <2>3. QED
    BY <1>1, <2>1, <2>2
<1>3. Absent.step = "absent" /\ "absent" \notin Loading
  BY DEF Absent, Backend, Loading
<1>4. c \in Contexts /\ c \in KeptContexts
  BY <1>0, <1>1 DEF BackendsConstructed, HasContext, KeptContexts, Kept
<1>5. \A a \in Addresses : backend[a].step = "ready" /\ backend[a].ctx = c => a = b
  BY <1>0, <1>1 DEF BackendsConstructed, HasContext
<1>6. ASSUME NEW d \in Contexts, d # c
      PROVE  Kept(d, backend, live)' <=> Kept(d, backend, live)
  BY <1>0, <1>1, <1>2, <1>3, <1>6 DEF Kept
<1>7. Kept(c, backend, live)' <=> Kept(c, backend', live)
  BY <1>1 DEF Kept
<1>8. Contexts' = Contexts
  BY <1>1 DEF Contexts
<1>9. /\ KeptContexts' = KeptContexts \/ KeptContexts' = KeptContexts \ {c}
      /\ c \in KeptContexts' <=> Kept(c, backend', live)
  BY <1>4, <1>6, <1>7, <1>8 DEF KeptContexts
<1>10. todo' = IF c \in KeptContexts' THEN << >> ELSE CoreDestructor(c)
  BY <1>0, <1>9 DEF Destruct
<1>11. Constructed' = Constructed /\ \A k : LoadingFrom(k)' = LoadingFrom(k)
  <2>1. backend[b].step \notin Loading /\ backend[b].step # "created"
    BY <1>1 DEF Loading
  <2>2. \A a \in Addresses : backend'[a].step = "created" <=> backend[a].step = "created"
    BY <1>2, <1>3, <2>1
  <2>3. \A a \in Addresses : backend'[a].step = "created" => backend'[a] = backend[a]
    BY <1>2, <1>3, <2>1
  <2>4. Constructed' = Constructed
    BY <2>2, <2>3 DEF Constructed
  <2>5. \A k : LoadingFrom(k)' = LoadingFrom(k)
    BY <1>2, <1>3, <2>1 DEF LoadingFrom
  <2>6. QED
    BY <2>4, <2>5
<1>12. BackendsConstructed'
  <2>1. \A a \in Addresses : HasContext(a)' => HasContext(a) /\ backend'[a] = backend[a]
    BY <1>2, <1>3 DEF HasContext
  <2>2. \A a \in Addresses : backend'[a].step \in Loading => backend'[a] = backend[a]
    BY <1>2, <1>3
  <2>3. \A a \in Addresses : backend'[a].step = "created" => backend'[a] = backend[a]
    BY <1>2, <1>3
  <2>4. Buffers' = Buffers /\ maker' = maker /\ origin' = origin
    BY <1>1 DEF Buffers
  <2>5. QED
    BY <1>1, <1>8, <2>1, <2>2, <2>3, <2>4 DEF BackendsConstructed
<1>13. live' = Held' /\ live' \subseteq live
  <2>1. live = Held
    BY <1>1, AtRest
  <2>2. QED
    BY <1>1, <2>1 DEF Held
<1>14. Owed("destroy") = {} /\ Owed("close") = {}
  BY <1>1, NothingOwed DEF Idle
<1>15. TypeOK' /\ OneChain' /\ Accounted'
  BY <1>1, <1>2, <1>4, <1>9, <1>10, <1>11, <1>13, <1>14, ShareGoes
<1>16. ~Reuse => TagsTell'
  BY <1>1, DestructTags DEF LifeInv
<1>17. QED
  BY <1>12, <1>15, <1>16 DEF LifeInv

(* The chain under way tells what it owes.                                  *)
LEMMA ChainIs ==
  ASSUME LifeInv, ~Idle
  PROVE  /\ Head(todo).op = "free" => \E x \in live \ Held : todo = <<Call("free", x)>>
         /\ Head(todo).op = "destroy" =>
              \E c \in alive \ (KeptContexts \cup Constructed) : todo = CoreDestructor(c)
         /\ Head(todo).op = "close" => \E l \in Libraries : todo = <<Call("close", l)>>
         /\ Head(todo).op \in {"free", "destroy", "close"}
<1>1. OneChain
  BY DEF LifeInv
<1>2. \A o, x : Head(<<Call(o, x)>>).op = o
  BY DEF Call
<1>3. \A c : Head(CoreDestructor(c)).op = "destroy"
  <2>1. ASSUME NEW c PROVE Head(CoreDestructor(c)).op = "destroy"
    <3>1. CASE origin[c] = BuiltIn
      BY <1>2, <3>1, CoreDestructorIs
    <3>2. CASE origin[c] # BuiltIn
      <4>1. CoreDestructor(c) = <<Call("destroy", c), Call("close", origin[c])>>
        BY <3>2, CoreDestructorIs
      <4>2. QED
        BY <4>1 DEF Call
    <3>3. QED
      BY <3>1, <3>2
  <2>2. QED
    BY <2>1
<1>4. CASE \E x \in live \ Held : todo = <<Call("free", x)>>
  BY <1>2, <1>4
<1>5. CASE \E c \in alive \ (KeptContexts \cup Constructed) : todo = CoreDestructor(c)
  BY <1>3, <1>5
<1>6. CASE \E l \in Libraries : todo = <<Call("close", l)>>
  BY <1>2, <1>6
<1>7. QED
  BY <1>1, <1>4, <1>5, <1>6 DEF OneChain

LEMMA FirstCall ==
  ASSUME NEW o, NEW x
  PROVE  /\ Head(<<Call(o, x)>>).op = o /\ Head(<<Call(o, x)>>).of = x
         /\ Tail(<<Call(o, x)>>) = << >>
BY Joined DEF Call

LEMMA FreeBufferKeeps ==
  ASSUME LifeInv, FreeBuffer
  PROVE  LifeInv'
<1>1. /\ TypeOK /\ BackendsConstructed /\ Accounted /\ ~Idle /\ Head(todo).op = "free"
      /\ UNCHANGED <<objects, opens, alive, holds>>
      /\ UNCHANGED <<origin, maker, backend>>
  BY DEF LifeInv, FreeBuffer, objects
<1>2. PICK x \in live \ Held : todo = <<Call("free", x)>>
  BY <1>1, ChainIs
<1>3. Head(todo).of = x /\ Tail(todo) = << >>
  BY <1>2, FirstCall
<1>4. PICK c : c = maker[x]
  OBVIOUS
<1>5. live' = live \ {x}
  BY <1>3 DEF FreeBuffer
<1>6. todo' = << >> \o (IF Kept(maker[x], backend, live \ {x}) THEN << >> ELSE CoreDestructor(maker[x]))
  BY <1>3 DEF FreeBuffer
<1>7. c \in Contexts /\ c \in KeptContexts
  BY <1>1, <1>2, <1>4, Domains DEF KeptContexts, Kept, TypeOK
<1>8. todo' = IF Kept(c, backend, live \ {x}) THEN << >> ELSE CoreDestructor(c)
  <2>1. CoreDestructor(c) \in Seq([op : {"free"}, of : Buffers] \cup [op : {"destroy"}, of : Contexts]
                 \cup [op : {"close"}, of : Libraries])
    BY <1>1, <1>7, CoreDestructorTyped
  <2>2. \A S : \A s \in Seq(S) : << >> \o s = s
    OBVIOUS
  <2>3. << >> \o CoreDestructor(c) = CoreDestructor(c)
    BY <2>1, <2>2
  <2>4. << >> \o << >> = << >>
    OBVIOUS
  <2>5. QED
    BY <1>4, <1>6, <2>3, <2>4
<1>9. ASSUME NEW d \in Contexts, d # c
      PROVE  Kept(d, backend, live)' <=> Kept(d, backend, live)
  BY <1>1, <1>4, <1>5, <1>9 DEF Kept
<1>10. Kept(c, backend, live)' <=> Kept(c, backend, live \ {x})
  BY <1>1, <1>5 DEF Kept
<1>11. Contexts' = Contexts /\ Buffers' = Buffers
  BY <1>1 DEF Contexts, Buffers
<1>12. /\ KeptContexts' = KeptContexts \/ KeptContexts' = KeptContexts \ {c}
       /\ c \in KeptContexts' <=> Kept(c, backend, live \ {x})
  BY <1>7, <1>9, <1>10, <1>11 DEF KeptContexts
<1>13. todo' = IF c \in KeptContexts' THEN << >> ELSE CoreDestructor(c)
  BY <1>8, <1>12
<1>14. Constructed' = Constructed /\ \A k : LoadingFrom(k)' = LoadingFrom(k)
  BY <1>1 DEF Constructed, LoadingFrom
<1>15. BackendsConstructed'
  BY <1>1, <1>11 DEF BackendsConstructed, HasContext
<1>16. Owed("free") = {x} /\ Owed("destroy") = {} /\ Owed("close") = {}
  BY <1>2, OwedIs, OwedByOne
<1>17. live' = Held' /\ live' \subseteq live
  <2>1. live = Held \cup {x}
    BY <1>1, <1>16 DEF Accounted
  <2>2. Held' = Held
    BY <1>1 DEF Held
  <2>3. QED
    BY <1>2, <1>5, <2>1, <2>2
<1>18. backend' \in [Addresses ->
              [step : Loading \cup {"ready", "absent"},
               lib : Libraries \cup {BuiltIn, Nothing}, ctx : 0..MaxContexts]]
  BY <1>1 DEF TypeOK
<1>19. TypeOK' /\ OneChain' /\ Accounted'
  BY <1>1, <1>7, <1>12, <1>13, <1>14, <1>16, <1>17, <1>18, ShareGoes
<1>20. ~Reuse => TagsTell'
  BY <1>1, SameTags DEF LifeInv, objects
<1>21. QED
  BY <1>15, <1>19, <1>20 DEF LifeInv

LEMMA ChainTyped ==
  ASSUME NEW S, NEW t \in Seq(S), t # << >>
  PROVE  Tail(t) \in Seq(S)
OBVIOUS

LEMMA DestroyContextKeeps ==
  ASSUME LifeInv, DestroyContext
  PROVE  LifeInv'
<1>1. /\ TypeOK /\ BackendsConstructed /\ Accounted /\ ~Idle /\ Head(todo).op = "destroy"
      /\ UNCHANGED <<exports, used, origin, maker, backend, opens, live, holds>>
      /\ Contexts' = Contexts /\ Buffers' = Buffers
  BY DEF LifeInv, DestroyContext, objects, Contexts, Buffers
<1>2. PICK c \in alive \ (KeptContexts \cup Constructed) : todo = CoreDestructor(c)
  BY <1>1, ChainIs
<1>3. c \in Contexts /\ origin[c] \in Libraries \cup {BuiltIn}
  BY <1>1, <1>2, Domains DEF TypeOK
<1>4. /\ Head(todo).of = c
      /\ Tail(todo) = IF origin[c] = BuiltIn THEN << >> ELSE <<Call("close", origin[c])>>
  <2>1. CASE origin[c] = BuiltIn
    <3>1. todo = <<Call("destroy", c)>>
      BY <1>2, <2>1, CoreDestructorIs
    <3>2. QED
      BY <2>1, <3>1, FirstCall
  <2>2. CASE origin[c] # BuiltIn
    <3>1. todo = <<Call("destroy", c), Call("close", origin[c])>>
      BY <1>2, <2>2, CoreDestructorIs
    <3>2. Head(todo).of = c
      BY <3>1 DEF Call
    <3>3. QED
      BY <2>2, <3>1, <3>2, Joined
  <2>3. QED
    BY <2>1, <2>2
<1>5. alive' = alive \ {c} /\ todo' = Tail(todo)
  BY <1>4 DEF DestroyContext
<1>6. /\ Owed("free") = {} /\ Owed("destroy") = {c}
      /\ Owed("close") = IF origin[c] = BuiltIn THEN {} ELSE {origin[c]}
  BY <1>2, OwedIs, OwedByCore
<1>7. /\ Owed("free")' = {} /\ Owed("destroy")' = {} /\ Owed("close")' = Owed("close")
  <2>1. CASE origin[c] = BuiltIn
    BY <1>4, <1>5, <1>6, <2>1, NothingOwed
  <2>2. CASE origin[c] # BuiltIn
    <3>1. todo' = <<Call("close", origin[c])>>
      BY <1>4, <1>5, <2>2
    <3>2. \A op : OwedIn(todo', op) = IF "close" = op THEN {origin[c]} ELSE {}
      BY <3>1, OwedByOne
    <3>3. QED
      BY <1>6, <2>2, <3>2, OwedIs
  <2>3. QED
    BY <2>1, <2>2
<1>8. /\ KeptContexts' = KeptContexts /\ Constructed' = Constructed /\ Held' = Held
      /\ \A k : LoadingFrom(k)' = LoadingFrom(k) /\ KeptFrom(k)' = KeptFrom(k)
  <2>1. SameContexts
    BY <1>1, SameContextsKept
  <2>2. QED
    BY <1>1, <2>1 DEF SameContexts, Held
<1>9. Accounted'
  <2>1. live' = Held' \cup Owed("free")'
    BY <1>1, <1>6, <1>7, <1>8 DEF Accounted
  <2>2. alive' = KeptContexts' \cup Constructed' \cup Owed("destroy")'
    BY <1>1, <1>2, <1>5, <1>6, <1>7, <1>8 DEF Accounted
  <2>3. QED
    BY <1>1, <1>7, <1>8, <2>1, <2>2 DEF Accounted
<1>10. OneChain'
  BY <1>3, <1>4, <1>5 DEF OneChain, Idle
<1>11. TypeOK'
  <2>1. alive' \subseteq Contexts'
    BY <1>1, <1>5 DEF TypeOK
  <2>2. todo' \in Seq([op : {"free"}, of : Buffers] \cup [op : {"destroy"}, of : Contexts]
                 \cup [op : {"close"}, of : Libraries])
    BY <1>1, <1>5, ChainTyped DEF TypeOK, Idle
  <2>3. QED
    BY <1>1, <2>1, <2>2 DEF TypeOK
<1>12. BackendsConstructed'
  BY <1>1 DEF BackendsConstructed, HasContext
<1>13. ~Reuse => TagsTell'
  BY <1>1, SameTags DEF LifeInv
<1>14. QED
  BY <1>9, <1>10, <1>11, <1>12, <1>13 DEF LifeInv

LEMMA CloseLibraryKeeps ==
  ASSUME LifeInv, CloseLibrary
  PROVE  LifeInv'
<1>1. /\ TypeOK /\ BackendsConstructed /\ Accounted /\ ~Idle /\ Head(todo).op = "close"
      /\ UNCHANGED <<exports, used, origin, maker, backend, alive, live, holds>>
      /\ Contexts' = Contexts /\ Buffers' = Buffers
  BY DEF LifeInv, CloseLibrary, objects, Contexts, Buffers
<1>2. PICK l \in Libraries : todo = <<Call("close", l)>>
  BY <1>1, ChainIs
<1>3. Head(todo).of = l /\ Tail(todo) = << >>
  BY <1>2, FirstCall
<1>4. opens' = [opens EXCEPT ![l] = @ - 1] /\ todo' = << >>
  BY <1>3 DEF CloseLibrary
<1>5. Owed("free") = {} /\ Owed("destroy") = {} /\ Owed("close") = {l}
  BY <1>2, OwedIs, OwedByOne
<1>6. /\ KeptContexts' = KeptContexts /\ Constructed' = Constructed /\ Held' = Held
      /\ \A k : LoadingFrom(k)' = LoadingFrom(k) /\ KeptFrom(k)' = KeptFrom(k)
  <2>1. SameContexts
    BY <1>1, SameContextsKept
  <2>2. QED
    BY <1>1, <2>1 DEF SameContexts, Held
<1>7. ASSUME NEW k \in Libraries
      PROVE  /\ opens'[k] = Cardinality(LoadingFrom(k)') + Cardinality(KeptFrom(k)')
             /\ opens'[k] \in Nat
  <2>1. opens[k] = Cardinality(LoadingFrom(k)) + Cardinality(KeptFrom(k))
                     + (IF k \in Owed("close") THEN 1 ELSE 0)
    BY <1>1 DEF Accounted
  <2>2. Cardinality(LoadingFrom(k)) \in Nat /\ Cardinality(KeptFrom(k)) \in Nat
    BY <1>1, BooksCount
  <2>3. opens'[k] = IF k = l THEN opens[k] - 1 ELSE opens[k]
    BY <1>1, <1>4 DEF TypeOK
  <2>4. QED
    BY <1>5, <1>6, <2>1, <2>2, <2>3
<1>8. opens' \in [Libraries -> Nat]
  <2>1. opens \in [Libraries -> Nat]
    BY <1>1 DEF TypeOK
  <2>2. DOMAIN opens' = Libraries /\ opens' = [k \in Libraries |-> opens'[k]]
    BY <1>4, <2>1
  <2>3. QED
    BY <1>7, <2>2
<1>9. TypeOK'
  BY <1>1, <1>4, <1>8 DEF TypeOK
<1>10. live' = Held' /\ alive' = KeptContexts' \cup Constructed'
  BY <1>1, <1>5, <1>6 DEF Accounted
<1>11. Accounted' /\ OneChain'
  BY <1>4, <1>7, <1>9, <1>10, StillAtRest
<1>12. BackendsConstructed'
  BY <1>1 DEF BackendsConstructed, HasContext
<1>13. ~Reuse => TagsTell'
  BY <1>1, SameTags DEF LifeInv
<1>14. QED
  BY <1>9, <1>11, <1>12, <1>13 DEF LifeInv

-----------------------------------------------------------------------------
(* The whole.                                                              *)
LEMMA LifeInit == Init => LifeInv
<1> SUFFICES ASSUME Init PROVE LifeInv
  OBVIOUS
<1>1. /\ origin = << >> /\ maker = << >> /\ alive = {} /\ live = {} /\ todo = << >> /\ used = {}
      /\ Contexts = {} /\ Buffers = {}
  BY DEF Init, Contexts, Buffers
<1>2. /\ \A b \in Addresses : backend[b] = Absent
      /\ Absent.step = "absent" /\ "absent" \notin Loading
  BY DEF Init, Absent, Backend, Loading
<1>3. \A e \in Entities : holds[e] = Nothing
  BY DEF Init
<1>4. TypeOK
  <2>1. exports \in [Libraries -> Exports]
    BY CatalogueAssumption DEF Init
  <2>2. backend \in [Addresses ->
       [step : Loading \cup {"ready", "absent"},
        lib : Libraries \cup {BuiltIn, Nothing}, ctx : 0..MaxContexts]]
    BY BoundsAssumption DEF Init, Absent, Backend
  <2>3. opens \in [Libraries -> Nat]
    BY DEF Init
  <2>4. holds \in [Entities -> {Nothing} \cup [buffer : Buffers, owner : Addresses]]
    BY DEF Init
  <2>5. QED
    BY <1>1, <2>1, <2>2, <2>3, <2>4 DEF TypeOK
<1>5. BackendsConstructed
  BY <1>2 DEF BackendsConstructed, HasContext
<1>6. OneChain
  BY <1>1 DEF OneChain, Idle
<1>7. Held = {} /\ KeptContexts = {} /\ Constructed = {} /\ \A op : Owed(op) = {}
  <2>1. \A op : Owed(op) = {}
    BY <1>1, NothingOwed
  <2>2. QED
    BY <1>1, <1>2, <1>3, <2>1 DEF Held, KeptContexts, Constructed
<1>8. ASSUME NEW l \in Libraries
      PROVE  opens[l] = Cardinality(LoadingFrom(l)) + Cardinality(KeptFrom(l))
                          + (IF l \in Owed("close") THEN 1 ELSE 0)
  <2>1. LoadingFrom(l) = {} /\ KeptFrom(l) = {} /\ l \notin Owed("close")
    BY <1>2, <1>7 DEF LoadingFrom, KeptFrom
  <2>2. opens[l] = 0
    BY DEF Init
  <2>3. QED
    BY <2>1, <2>2, FS_EmptySet
<1>9. Accounted
  BY <1>1, <1>7, <1>8 DEF Accounted
<1>10. TagsTell
  BY <1>1, <1>2, <1>3 DEF TagsTell, OwnerTagSeparates, Ready, Accepts
<1>11. QED
  BY <1>4, <1>5, <1>6, <1>9, <1>10 DEF LifeInv

LEMMA LifeStutters == LifeInv /\ UNCHANGED lifeVars => LifeInv'
<1> SUFFICES ASSUME LifeInv, UNCHANGED lifeVars PROVE LifeInv'
  OBVIOUS
<1>1. UNCHANGED <<exports, backend, used, opens, origin, alive, maker, live, holds, todo>>
  BY DEF lifeVars, objects
<1>2. Contexts' = Contexts /\ Buffers' = Buffers
  BY <1>1 DEF Contexts, Buffers
<1>3. TypeOK'
  BY <1>1, <1>2 DEF LifeInv, TypeOK
<1>4. BackendsConstructed'
  BY <1>1, <1>2 DEF LifeInv, BackendsConstructed, HasContext
<1>5. SameContexts
  BY <1>1, SameContextsKept
<1>6. Held' = Held /\ (\A op : Owed(op)' = Owed(op)) /\ \A c : CoreDestructor(c)' = CoreDestructor(c)
  BY <1>1 DEF Held, Owed, CoreDestructor
<1>7. OneChain'
  BY <1>1, <1>5, <1>6 DEF LifeInv, OneChain, Idle, SameContexts
<1>8. Accounted'
  BY <1>1, <1>5, <1>6 DEF LifeInv, Accounted, SameContexts
<1>9. ~Reuse => TagsTell'
  BY <1>1, SameTags DEF LifeInv
<1>10. QED
  BY <1>3, <1>4, <1>7, <1>8, <1>9 DEF LifeInv

LEMMA LifeNext == LifeInv /\ [Next]_lifeVars => LifeInv'
<1> SUFFICES ASSUME LifeInv, Next PROVE LifeInv'
  BY LifeStutters
<1>1. ASSUME NEW b \in Addresses, NEW l \in Libraries, Open(b, l) PROVE LifeInv'
  BY <1>1, OpenKeeps
<1>2. ASSUME NEW b \in Addresses, Handshake(b) PROVE LifeInv'
  BY <1>2, PassesKeeps DEF Handshake, Loading
<1>3. ASSUME NEW b \in Addresses, ResolveRequired(b) PROVE LifeInv'
  BY <1>3, PassesKeeps DEF ResolveRequired, Loading
<1>4. ASSUME NEW b \in Addresses, ResolveDataPlane(b) PROVE LifeInv'
  BY <1>4, PassesKeeps DEF ResolveDataPlane, Loading
<1>5. ASSUME NEW b \in Addresses, CreateFails(b) PROVE LifeInv'
  BY <1>5, GiveUpKeeps DEF CreateFails, Loading
<1>6. ASSUME NEW b \in Addresses, Create(b) PROVE LifeInv'
  BY <1>6, CreateKeeps
<1>7. ASSUME NEW b \in Addresses, KernelsMissing(b) PROVE LifeInv'
  BY <1>7, KernelsMissingKeeps
<1>8. ASSUME NEW b \in Addresses, Finish(b) PROVE LifeInv'
  BY <1>8, FinishKeeps
<1>9. ASSUME NEW b \in Addresses, ConstructBuiltin(b) PROVE LifeInv'
  BY <1>9, ConstructBuiltinKeeps
<1>10. ASSUME NEW b \in Addresses, Destruct(b) PROVE LifeInv'
  BY <1>10, DestructKeeps
<1>11. ASSUME NEW b \in Addresses, TransformFails(b) PROVE LifeInv'
  BY <1>11, TransformFailsKeeps
<1>12. ASSUME NEW b \in Addresses, NEW e \in Entities, Transform(b, e) PROVE LifeInv'
  BY <1>12, TakeKeeps DEF Transform
<1>13. ASSUME NEW b \in Addresses, NEW e \in Entities, NEW operand \in Entities,
              Adopt(b, operand, e)
       PROVE  LifeInv'
  BY <1>13, TakeKeeps DEF Adopt
<1>14. ASSUME NEW e \in Entities, NEW f \in Entities, Assign(e, f) PROVE LifeInv'
  BY <1>14, ShareKeeps DEF Assign
<1>15. ASSUME NEW e \in Entities, Drop(e) PROVE LifeInv'
  BY <1>15, ShareKeeps DEF Drop
<1>16. Destructors => LifeInv'
  BY FreeBufferKeeps, DestroyContextKeeps, CloseLibraryKeeps DEF Destructors
<1>17. QED
  BY <1>1, <1>2, <1>3, <1>4, <1>5, <1>6, <1>7, <1>8, <1>9, <1>10, <1>11, <1>12,
     <1>13, <1>14, <1>15, <1>16 DEF Next

(* Every context, buffer and open library is accounted to something that    *)
(* keeps it, or to a destructor call still to come, whatever backends are   *)
(* loaded, fail to load and die, and whatever entities share.               *)
THEOREM LifeInductive == Spec => []LifeInv
<1>1. QED
  BY LifeInit, LifeNext, PTL DEF Spec

(* Backends, libraries, contexts and buffers stay what they are, and no     *)
(* library is closed more often than it was opened.                         *)
THEOREM LifeTypeCorrect == Spec => []TypeOK
<1>1. LifeInv => TypeOK
  BY DEF LifeInv
<1>2. QED
  BY <1>1, LifeInductive, PTL

(* No call goes into a closed library or to a destroyed context, not even   *)
(* from the destructors that outlive a backend (External.cpp:141-171).      *)
THEOREM CallsReachable == Spec => []CallsReachLoadedCode
<1>1. ASSUME LifeInv PROVE CallsReachLoadedCode
  <2>1. TypeOK /\ BackendsConstructed /\ Accounted
    BY <1>1 DEF LifeInv
  <2>2. ASSUME NEW c \in KeptContexts PROVE Reachable(c)
    <3>1. c \in alive /\ c \in Contexts
      BY <2>1 DEF Accounted, KeptContexts
    <3>2. CASE origin[c] = BuiltIn
      BY <3>1, <3>2 DEF Reachable, IsOpen
    <3>3. CASE origin[c] # BuiltIn
      <4>1. origin[c] \in Libraries
        BY <2>1, <3>1, <3>3, Domains
      <4>2. PICK k \in Libraries : k = origin[c]
        BY <4>1
      <4>3. c \in KeptFrom(k)
        BY <4>2 DEF KeptFrom
      <4>4. /\ Cardinality(LoadingFrom(k)) \in Nat
            /\ Cardinality(KeptFrom(k)) \in Nat /\ Cardinality(KeptFrom(k)) >= 1
        BY <2>1, <4>3, BooksCount
      <4>5. opens[k] = Cardinality(LoadingFrom(k)) + Cardinality(KeptFrom(k))
                         + (IF k \in Owed("close") THEN 1 ELSE 0)
        BY <2>1 DEF Accounted
      <4>6. opens[k] > 0
        BY <4>4, <4>5
      <4>7. QED
        BY <3>1, <4>2, <4>6 DEF Reachable, IsOpen
    <3>4. QED
      BY <3>2, <3>3
  <2>3. ASSUME NEW l \in Libraries, l \in Owed("close") PROVE IsOpen(l)
    <3>1. opens[l] = Cardinality(LoadingFrom(l)) + Cardinality(KeptFrom(l)) + 1
      BY <2>1, <2>3 DEF Accounted
    <3>2. Cardinality(LoadingFrom(l)) \in Nat /\ Cardinality(KeptFrom(l)) \in Nat
      BY <2>1, BooksCount
    <3>3. QED
      BY <3>1, <3>2 DEF IsOpen
  <2>4. \A b \in Addresses : Ready(b) => Reachable(backend[b].ctx)
    <3>1. \A b \in Addresses : Ready(b) => backend[b].ctx \in KeptContexts
      BY <2>1 DEF BackendsConstructed, HasContext, Ready, KeptContexts, Kept
    <3>2. QED
      BY <2>2, <3>1
  <2>5. ASSUME ~Idle, Head(todo).op = "free" PROVE Reachable(maker[Head(todo).of])
    <3>1. PICK x \in live \ Held : todo = <<Call("free", x)>>
      BY <1>1, <2>5, ChainIs
    <3>2. maker[x] \in KeptContexts
      BY <2>1, <3>1, Domains DEF TypeOK, KeptContexts, Kept
    <3>3. Head(todo).of = x
      BY <3>1, FirstCall
    <3>4. QED
      BY <2>2, <3>2, <3>3
  <2>6. ASSUME ~Idle, Head(todo).op = "destroy" PROVE Reachable(Head(todo).of)
    <3>1. PICK c \in alive \ (KeptContexts \cup Constructed) : todo = CoreDestructor(c)
      BY <1>1, <2>6, ChainIs
    <3>2. Head(todo).of = c
      <4>1. todo = <<Call("destroy", c)>> \/ todo = <<Call("destroy", c), Call("close", origin[c])>>
        BY <3>1, CoreDestructorIs
      <4>2. QED
        BY <4>1 DEF Call
    <3>3. Owed("close") = IF origin[c] = BuiltIn THEN {} ELSE {origin[c]}
      BY <3>1, OwedIs, OwedByCore
    <3>4. origin[c] \in Libraries \cup {BuiltIn}
      BY <2>1, <3>1, Domains DEF TypeOK
    <3>5. IsOpen(origin[c])
      <4>1. CASE origin[c] = BuiltIn
        BY <4>1 DEF IsOpen
      <4>2. CASE origin[c] # BuiltIn
        BY <2>3, <3>3, <3>4, <4>2
      <4>3. QED
        BY <4>1, <4>2
    <3>6. QED
      BY <3>1, <3>2, <3>5 DEF Reachable
  <2>7. ASSUME ~Idle, Head(todo).op = "close" PROVE IsOpen(Head(todo).of)
    <3>1. PICK l \in Libraries : todo = <<Call("close", l)>>
      BY <1>1, <2>7, ChainIs
    <3>2. Head(todo).of = l /\ Owed("close") = {l}
      BY <3>1, FirstCall, OwedIs, OwedByOne
    <3>3. QED
      BY <2>3, <3>2
  <2>8. ~Idle => Head(todo).op \in {"free", "destroy", "close"}
    BY <1>1, ChainIs
  <2>9. QED
    BY <2>4, <2>5, <2>6, <2>7, <2>8 DEF CallsReachLoadedCode
<1>2. QED
  BY <1>1, LifeInductive, PTL

(* A buffer is freed once, after the last entity holding it let it go       *)
(* (External.cpp:160-171, Session.cpp:109-128).                             *)
THEOREM FreedOnce == Spec => []FreedOnceUnheld
<1>1. ASSUME LifeInv PROVE FreedOnceUnheld
  <2>1. live = Held \cup Owed("free") /\ OneChain
    BY <1>1 DEF LifeInv, Accounted
  <2>2. \A e \in Entities : holds[e] # Nothing => holds[e].buffer \in live
    BY <2>1 DEF Held
  <2>3. ASSUME NEW k \in DOMAIN todo, todo[k].op = "free"
        PROVE  /\ todo[k].of \in live
               /\ \A e \in Entities : holds[e] = Nothing \/ holds[e].buffer # todo[k].of
               /\ \A j \in DOMAIN todo : todo[j] = todo[k] => j = k
    <3>1. todo[k].of \in Owed("free") /\ ~Idle
      BY <2>3 DEF Owed, Idle
    <3>2. PICK x \in live \ Held : todo = <<Call("free", x)>>
      <4>1. \A c : Owed("free") = {} \/ todo # CoreDestructor(c)
        BY OwedIs, OwedByCore
      <4>2. \A l : Owed("free") = {} \/ todo # <<Call("close", l)>>
        BY OwedIs, OwedByOne
      <4>3. QED
        BY <2>1, <3>1, <4>1, <4>2 DEF OneChain
    <3>3. Owed("free") = {x}
      BY <3>2, OwedIs, OwedByOne
    <3>4. todo[k].of = x /\ DOMAIN todo = {1}
      BY <3>1, <3>2, <3>3
    <3>5. QED
      BY <3>2, <3>4 DEF Held
  <2>4. QED
    BY <2>2, <2>3 DEF FreedOnceUnheld
<1>2. QED
  BY <1>1, LifeInductive, PTL

(* Between two operations nothing is left behind: no buffer nobody holds,   *)
(* no context without backend or buffer, no library open without either     *)
(* (External.cpp:22-123, 151-158).                                          *)
THEOREM NothingLeft == Spec => []NothingLeaks
<1>1. ASSUME LifeInv, Idle
      PROVE  LET held == {holds[e].buffer : e \in {f \in Entities : holds[f] # Nothing}}
                 needed == {backend[b].ctx : b \in {a \in Addresses : Ready(a)}}
                             \cup {maker[x] : x \in held}
                 constructed == {b \in Addresses : backend[b].step = "created"}
             IN  /\ live = held
                 /\ alive = needed \cup {backend[b].ctx : b \in constructed}
                 /\ \A l \in Libraries :
                      opens[l] = Cardinality({b \in Addresses :
                                       backend[b].lib = l /\ backend[b].step \in Loading})
                                 + Cardinality({c \in needed : origin[c] = l})
  <2> DEFINE needed == {backend[b].ctx : b \in {a \in Addresses : Ready(a)}}
                         \cup {maker[x] : x \in Held}
  <2>1. /\ live = Held /\ alive = KeptContexts \cup Constructed
        /\ \A l \in Libraries :
              opens[l] = Cardinality(LoadingFrom(l)) + Cardinality(KeptFrom(l))
    BY <1>1, AtRest
  <2>2. TypeOK /\ BackendsConstructed
    BY <1>1 DEF LifeInv
  <2>3. needed \subseteq Contexts
    <3>1. \A b \in Addresses : Ready(b) => backend[b].ctx \in Contexts
      BY <2>2 DEF BackendsConstructed, HasContext, Ready
    <3>2. \A x \in Held : maker[x] \in Contexts
      BY <2>1, <2>2, Domains DEF TypeOK
    <3>3. QED
      BY <3>1, <3>2
  <2>4. \A c : Kept(c, backend, live) <=> c \in needed
    BY <2>1 DEF Kept, Ready
  <2>5. KeptContexts = needed
    BY <2>3, <2>4 DEF KeptContexts
  <2>6. \A l : KeptFrom(l) = {c \in needed : origin[c] = l}
    BY <2>5 DEF KeptFrom
  <2>7. QED
    BY <2>1, <2>5, <2>6 DEF Held, Constructed, LoadingFrom
<1>2. LifeInv => NothingLeaks
  BY <1>1 DEF NothingLeaks
<1>3. QED
  BY <1>2, LifeInductive, PTL

(* Where no address gets a second backend, what a backend accepts was made  *)
(* in its own context: "a buffer created by one backend must never reach    *)
(* another backend's kernels" (Backend.h:22-23).  With Reuse it fails: the  *)
(* run BackendReuse.                                                        *)
THEOREM TagsSeparate ==
  ASSUME ~Reuse
  PROVE  Spec => []OwnerTagSeparates
<1>1. LifeInv => OwnerTagSeparates
  BY DEF LifeInv, TagsTell
<1>2. QED
  BY <1>1, LifeInductive, PTL
=============================================================================
