--------------------------- MODULE BackendLifetime ---------------------------
(***************************************************************************)
(* Backends, the libraries behind them and the buffers made through them:   *)
(* the loader (src/Backend/External.cpp), the built-in backend              *)
(* (src/Backend/Builtin.cpp), and what entities keep alive of both.         *)
(*                                                                         *)
(* A LibCore owns one context and one dlopen handle.  The backend shares    *)
(* it, and so does the deleter of every buffer; the last to go runs its     *)
(* destructor.  Destructors run at once and to the end: todo is the chain   *)
(* of calls they still have to make.                                       *)
(***************************************************************************)
EXTENDS Integers, Sequences, FiniteSets

CONSTANTS
  Addresses,    \* where backend objects may be constructed
  Entities,     \* Fhenon values
  Libraries,    \* shared libraries
  Catalogue,    \* what a library may export, see Exports
  BuiltIn,      \* the engine linked into the program
  Nothing,      \* a null pointer
  MaxContexts,  \* bound on the contexts made
  MaxBuffers,   \* bound on the buffers made
  Reuse         \* an address may get a second backend

(* abi: what the handshake finds; required, data: whether all required     *)
(* symbols, all buffer symbols, are there; encrypt: optional encryption.   *)
(* The movement hooks and the level model, optional too, own nothing.      *)
Exports ==
  [abi : {"none", "other", "ours"}, required : BOOLEAN, data : BOOLEAN, encrypt : BOOLEAN]

ASSUME CatalogueAssumption == Catalogue \subseteq Exports
ASSUME ReuseAssumption == Reuse \in BOOLEAN
ASSUME AddressesAssumption == IsFiniteSet(Addresses)
ASSUME BoundsAssumption == MaxContexts \in Nat /\ MaxBuffers \in Nat
ASSUME NamesAssumption ==
  BuiltIn \notin Libraries /\ Nothing \notin [buffer : Nat, owner : Addresses]

VARIABLES
  exports,  \* what each library exports
  backend,  \* the backend object at each address
  used,     \* the addresses that ever had one
  opens,    \* how often each library is open
  origin,   \* the library of every context made
  alive,    \* the contexts not destroyed
  maker,    \* the context of every buffer made
  live,     \* the buffers not freed
  holds,    \* ciphertext_: a buffer and the owner tag
  todo      \* destructor calls under way

objects == <<exports, used, origin, maker>>
lifeVars == <<objects, backend, opens, alive, live, holds, todo>>

Loading == {"opened", "matched", "required", "resolved", "created"}

(* step: how far the constructor came.                                      *)
Backend(step, lib, ctx) == [step |-> step, lib |-> lib, ctx |-> ctx]

Absent == Backend("absent", Nothing, 0)

Ready(b) == backend[b].step = "ready"

Init ==
  /\ exports \in [Libraries -> Catalogue]
  /\ backend = [b \in Addresses |-> Absent]
  /\ used = {}
  /\ opens = [l \in Libraries |-> 0]
  /\ origin = << >> /\ alive = {}
  /\ maker = << >> /\ live = {}
  /\ holds = [e \in Entities |-> Nothing]
  /\ todo = << >>

Idle == todo = << >>

-----------------------------------------------------------------------------
(* The constructor, one step per thing that may be missing.                 *)
At(b, step) == Idle /\ backend[b].step = step

Proceed(b, step) == backend' = [backend EXCEPT ![b].step = step]

Vacant(b) == backend[b] = Absent /\ (Reuse \/ b \notin used)

(* dlopen, which counts.                                                    *)
Open(b, l) ==
  /\ Idle /\ Vacant(b)
  /\ opens' = [opens EXCEPT ![l] = @ + 1]
  /\ backend' = [backend EXCEPT ![b] = Backend("opened", l, 0)]
  /\ UNCHANGED <<objects, alive, live, holds, todo>>

(* The constructor gives up: what it opened is closed.                      *)
GiveUp(b) ==
  /\ opens' = [opens EXCEPT ![backend[b].lib] = @ - 1]
  /\ backend' = [backend EXCEPT ![b] = Absent]
  /\ UNCHANGED <<objects, alive, live, holds, todo>>

Passes(b, has, step) ==
  IF has THEN Proceed(b, step) /\ UNCHANGED <<objects, opens, alive, live, holds, todo>>
         ELSE GiveUp(b)

Handshake(b) == At(b, "opened") /\ Passes(b, exports[backend[b].lib].abi = "ours", "matched")

ResolveRequired(b) == At(b, "matched") /\ Passes(b, exports[backend[b].lib].required, "required")

ResolveDataPlane(b) == At(b, "required") /\ Passes(b, exports[backend[b].lib].data, "resolved")

CreateFails(b) == At(b, "resolved") /\ GiveUp(b)

NewContext == Len(origin) + 1

Create(b) ==
  /\ At(b, "resolved") /\ NewContext <= MaxContexts
  /\ origin' = Append(origin, backend[b].lib)
  /\ alive' = alive \cup {NewContext}
  /\ backend' = [backend EXCEPT ![b] = Backend("created", @.lib, NewContext)]
  /\ UNCHANGED <<exports, used, maker, opens, live, holds, todo>>

(* Fault: the context is forgotten.                                         *)
KernelsMissingKeepsContext(b) == At(b, "created") /\ GiveUp(b)

(* No kernel table: the context is destroyed, then the library closed.      *)
KernelsMissing(b) ==
  /\ At(b, "created")
  /\ alive' = alive \ {backend[b].ctx}
  /\ opens' = [opens EXCEPT ![backend[b].lib] = @ - 1]
  /\ backend' = [backend EXCEPT ![b] = Absent]
  /\ UNCHANGED <<objects, live, holds, todo>>

(* From here on the LibCore owns the context and the handle.                *)
Finish(b) ==
  /\ At(b, "created")
  /\ Proceed(b, "ready")
  /\ used' = used \cup {b}
  /\ UNCHANGED <<exports, origin, maker, opens, alive, live, holds, todo>>

(* The built-in backend needs no library.                                   *)
ConstructBuiltin(b) ==
  /\ Idle /\ Vacant(b) /\ NewContext <= MaxContexts
  /\ origin' = Append(origin, BuiltIn)
  /\ alive' = alive \cup {NewContext}
  /\ backend' = [backend EXCEPT ![b] = Backend("ready", BuiltIn, NewContext)]
  /\ used' = used \cup {b}
  /\ UNCHANGED <<exports, maker, opens, live, holds, todo>>

CanEncrypt(l) == l # BuiltIn => exports[l].encrypt

-----------------------------------------------------------------------------
(* Destructors.                                                            *)
Call(op, of) == [op |-> op, of |-> of]

(* Fault: a deleter does not share the core.                                *)
KeptByBackend(c, backends, buffers) ==
  \E b \in Addresses : backends[b].step = "ready" /\ backends[b].ctx = c

(* Something still shares the LibCore of context c.                         *)
Kept(c, backends, buffers) ==
  \/ \E b \in Addresses : backends[b].step = "ready" /\ backends[b].ctx = c
  \/ \E x \in buffers : maker[x] = c

(* ~LibCore.                                                                *)
CoreDestructor(c) ==
  <<Call("destroy", c)>>
    \o (IF origin[c] = BuiltIn THEN << >> ELSE <<Call("close", origin[c])>>)

(* Fault: an entity frees the buffer it held, whoever else holds it.        *)
ReleasedOutright(x, after) == IF x = Nothing THEN << >> ELSE <<Call("free", x.buffer)>>

(* What giving up the handle x does, when entities then hold after.         *)
Released(x, after) ==
  IF x = Nothing \/ \E e \in Entities : after[e] # Nothing /\ after[e].buffer = x.buffer
    THEN << >>
    ELSE <<Call("free", x.buffer)>>

(* Fault: the backend tears the core down itself.                           *)
DestructOutright(b) ==
  /\ Idle /\ Ready(b)
  /\ backend' = [backend EXCEPT ![b] = Absent]
  /\ todo' = CoreDestructor(backend[b].ctx)
  /\ UNCHANGED <<objects, opens, alive, live, holds>>

(* ~ExternalBackend, ~BuiltinBackend: their share of the core goes.         *)
Destruct(b) ==
  /\ Idle /\ Ready(b)
  /\ backend' = [backend EXCEPT ![b] = Absent]
  /\ todo' = IF Kept(backend[b].ctx, backend', live) THEN << >>
             ELSE CoreDestructor(backend[b].ctx)
  /\ UNCHANGED <<objects, opens, alive, live, holds>>

(* The deleter frees the buffer, then lets go of the core.                  *)
FreeBuffer ==
  /\ ~Idle /\ Head(todo).op = "free"
  /\ LET x == Head(todo).of IN
       /\ live' = live \ {x}
       /\ todo' = Tail(todo) \o (IF Kept(maker[x], backend, live \ {x}) THEN << >>
                                 ELSE CoreDestructor(maker[x]))
  /\ UNCHANGED <<objects, backend, opens, alive, holds>>

DestroyContext ==
  /\ ~Idle /\ Head(todo).op = "destroy"
  /\ alive' = alive \ {Head(todo).of}
  /\ todo' = Tail(todo)
  /\ UNCHANGED <<objects, backend, opens, live, holds>>

CloseLibrary ==
  /\ ~Idle /\ Head(todo).op = "close"
  /\ opens' = [opens EXCEPT ![Head(todo).of] = @ - 1]
  /\ todo' = Tail(todo)
  /\ UNCHANGED <<objects, backend, alive, live, holds>>

-----------------------------------------------------------------------------
(* Entities.                                                               *)
NewBuffer == Len(maker) + 1

Rebind(e, x) ==
  /\ holds' = [holds EXCEPT ![e] = x]
  /\ todo' = Released(holds[e], holds')

Allocate(b) ==
  /\ Idle /\ Ready(b) /\ NewBuffer <= MaxBuffers
  /\ maker' = Append(maker, backend[b].ctx)
  /\ live' = live \cup {NewBuffer}
  /\ UNCHANGED <<exports, backend, used, opens, origin, alive>>

(* transform: encrypt e into a buffer of its own.                           *)
Transform(b, e) ==
  /\ Allocate(b) /\ CanEncrypt(backend[b].lib)
  /\ Rebind(e, [buffer |-> NewBuffer, owner |-> b])

(* Encryption fails: the new buffer goes, the entity is as before.          *)
TransformFails(b) ==
  /\ Allocate(b) /\ CanEncrypt(backend[b].lib)
  /\ todo' = <<Call("free", NewBuffer)>>
  /\ UNCHANGED holds

(* What bufferOf, and the provisioning of a session, let through.           *)
AcceptsAnything(b, e) == holds[e] # Nothing

Accepts(b, e) == holds[e] # Nothing /\ holds[e].owner = b

(* A session run over operands the backend accepts ends by adopting a       *)
(* buffer its runtime allocated.                                           *)
Adopt(b, operand, e) ==
  /\ Allocate(b) /\ Accepts(b, operand)
  /\ Rebind(e, [buffer |-> NewBuffer, owner |-> b])

(* An assignment shares the buffer, or takes over that there is none.       *)
Assign(e, f) ==
  /\ Idle /\ holds[e] # holds[f]
  /\ Rebind(e, holds[f])
  /\ UNCHANGED <<objects, backend, opens, alive, live>>

(* An entity dies.                                                         *)
Drop(e) ==
  /\ Idle /\ holds[e] # Nothing
  /\ Rebind(e, Nothing)
  /\ UNCHANGED <<objects, backend, opens, alive, live>>

Destructors == FreeBuffer \/ DestroyContext \/ CloseLibrary

Next ==
  \/ \E b \in Addresses, l \in Libraries : Open(b, l)
  \/ \E b \in Addresses :
       \/ Handshake(b) \/ ResolveRequired(b) \/ ResolveDataPlane(b)
       \/ CreateFails(b) \/ Create(b) \/ KernelsMissing(b) \/ Finish(b)
       \/ ConstructBuiltin(b) \/ Destruct(b) \/ TransformFails(b)
  \/ \E b \in Addresses, e \in Entities :
       \/ Transform(b, e)
       \/ \E operand \in Entities : Adopt(b, operand, e)
  \/ \E e, f \in Entities : Assign(e, f)
  \/ \E e \in Entities : Drop(e)
  \/ Destructors

Spec == Init /\ [][Next]_lifeVars

-----------------------------------------------------------------------------
Contexts == DOMAIN origin

Buffers == DOMAIN maker

IsOpen(l) == l = BuiltIn \/ opens[l] > 0

(* Every variable keeps its type; no library is closed more often than it   *)
(* was opened.                                                             *)
TypeOK ==
  /\ exports \in [Libraries -> Exports]
  /\ backend \in [Addresses ->
       [step : Loading \cup {"ready", "absent"},
        lib : Libraries \cup {BuiltIn, Nothing}, ctx : 0..MaxContexts]]
  /\ used \subseteq Addresses
  /\ opens \in [Libraries -> Nat]
  /\ origin \in Seq(Libraries \cup {BuiltIn})
  /\ alive \subseteq Contexts
  /\ maker \in Seq(Contexts)
  /\ live \subseteq Buffers
  /\ holds \in [Entities ->
       {Nothing} \cup [buffer : Buffers, owner : Addresses]]
  /\ todo \in Seq([op : {"free"}, of : Buffers] \cup [op : {"destroy"}, of : Contexts]
                    \cup [op : {"close"}, of : Libraries])

(* No call goes into a library that is closed or to a context that is gone: *)
(* not from a backend, and not from the destructors that run after it, in   *)
(* whatever order backends and entities die (External.cpp:141-171).         *)
Reachable(c) == c \in alive /\ IsOpen(origin[c])

CallsReachLoadedCode ==
  /\ \A b \in Addresses : Ready(b) => Reachable(backend[b].ctx)
  /\ ~Idle =>
       CASE Head(todo).op = "free"    -> Reachable(maker[Head(todo).of])
         [] Head(todo).op = "destroy" -> Reachable(Head(todo).of)
         [] Head(todo).op = "close"   -> IsOpen(Head(todo).of)

(* A buffer is freed once, after the last entity holding it let it go       *)
(* (External.cpp:160-171, Session.cpp:109-128).                             *)
FreedOnceUnheld ==
  /\ \A e \in Entities : holds[e] # Nothing => holds[e].buffer \in live
  /\ \A k \in DOMAIN todo : todo[k].op = "free" =>
       /\ todo[k].of \in live
       /\ \A e \in Entities : holds[e] = Nothing \/ holds[e].buffer # todo[k].of
       /\ \A j \in DOMAIN todo : todo[j] = todo[k] => j = k

(* Nothing is left behind: a constructor that failed at any step, a backend *)
(* and its buffers once they are gone, keep no context and no library       *)
(* (External.cpp:22-123, 151-158).                                          *)
NothingLeaks ==
  Idle =>
    LET held == {holds[e].buffer : e \in {f \in Entities : holds[f] # Nothing}}
        needed == {backend[b].ctx : b \in {a \in Addresses : Ready(a)}}
                    \cup {maker[x] : x \in held}
        constructed == {b \in Addresses : backend[b].step = "created"}
    IN  /\ live = held
        /\ alive = needed \cup {backend[b].ctx : b \in constructed}
        /\ \A l \in Libraries :
             opens[l] = Cardinality({b \in Addresses :
                                       backend[b].lib = l /\ backend[b].step \in Loading})
                        + Cardinality({c \in needed : origin[c] = l})

(* "a buffer created by one backend must never reach another backend's      *)
(* kernels" (Backend.h:22-23): what a backend accepts was made in its own   *)
(* context.                                                                *)
OwnerTagSeparates ==
  \A b \in Addresses, e \in Entities :
    Ready(b) /\ Accepts(b, e) => maker[holds[e].buffer] = backend[b].ctx

-----------------------------------------------------------------------------
(* Why all this holds: what every context, buffer and open library is       *)
(* accounted to.                                                            *)
Held == {holds[e].buffer : e \in {f \in Entities : holds[f] # Nothing}}

KeptContexts == {c \in Contexts : Kept(c, backend, live)}

Constructed ==
  {backend[b].ctx : b \in {a \in Addresses : backend[a].step = "created"}}

LoadingFrom(l) ==
  {b \in Addresses : backend[b].lib = l /\ backend[b].step \in Loading}

KeptFrom(l) == {c \in KeptContexts : origin[c] = l}

(* What the destructors under way still have to give up.                    *)
Owed(op) == {todo[k].of : k \in {j \in DOMAIN todo : todo[j].op = op}}

(* A backend owns the context it made, alone; before the loader finished,   *)
(* nobody has made a buffer with it.                                        *)
HasContext(b) == backend[b].step \in {"created", "ready"}

BackendsConstructed ==
  /\ \A b \in Addresses :
       /\ backend[b].step \in Loading => backend[b].lib \in Libraries
       /\ HasContext(b) =>
            /\ backend[b].ctx \in Contexts
            /\ origin[backend[b].ctx] = backend[b].lib
  /\ \A a, b \in Addresses :
       HasContext(a) /\ HasContext(b) /\ backend[a].ctx = backend[b].ctx => a = b
  /\ \A b \in Addresses, x \in Buffers :
       backend[b].step = "created" => maker[x] # backend[b].ctx

(* Destructors form a single chain.                                         *)
OneChain ==
  \/ Idle
  \/ \E x \in live \ Held : todo = <<Call("free", x)>>
  \/ \E c \in alive \ (KeptContexts \cup Constructed) : todo = CoreDestructor(c)
  \/ \E l \in Libraries : todo = <<Call("close", l)>>

Accounted ==
  /\ live = Held \cup Owed("free")
  /\ alive = KeptContexts \cup Constructed \cup Owed("destroy")
  /\ \A l \in Libraries :
       opens[l] = Cardinality(LoadingFrom(l)) + Cardinality(KeptFrom(l))
                    + (IF l \in Owed("close") THEN 1 ELSE 0)

(* An address that gets no second backend tells the backends apart.         *)
TagsTell ==
  /\ \A e \in Entities : holds[e] # Nothing => holds[e].owner \in used
  /\ \A b \in Addresses : Ready(b) => b \in used
  /\ \A b \in Addresses : backend[b].step \in Loading => b \notin used
  /\ OwnerTagSeparates

LifeInv ==
  /\ TypeOK
  /\ BackendsConstructed
  /\ OneChain
  /\ Accounted
  /\ ~Reuse => TagsTell
=============================================================================
