--------------------------- MODULE CheddarKernels ---------------------------
(***************************************************************************)
(* The GPU backend (src/FHN/cheddar/CheddarFhnBackend.cpp): its kernels and *)
(* data plane over cheddar's Context.  The library does not return errors:  *)
(* it asserts, and a failed assertion ends the process.  The kernels refuse *)
(* beforehand what it would not survive.                                   *)
(*                                                                         *)
(* The library itself is not part of the repository: a ciphertext is a      *)
(* level, a power of the scale and the slots it packs, and its operations   *)
(* are modelled from the calls, and from the assertions the comments name.  *)
(* Where the repository says nothing of what an operation does (see Told),  *)
(* it may end the process or leave a ciphertext nothing is known of.        *)
(***************************************************************************)
EXTENDS KernelCalls, KernelOpcodes

CONSTANTS
  Staged,        \* messages of several slots a caller stages in a buffer
  HalfDegree,    \* slots of a full ciphertext: degree / 2
  RotationKeys,  \* "rotation_keys" of the configuration
  FreshLevel,    \* "default_encryption_level"
  Levels         \* target levels of LEVEL_DOWN

ASSUME ConfigurationAssumption ==
  /\ HalfDegree \in Nat \ {0} /\ FreshLevel \in Nat
  /\ RotationKeys \subseteq Int /\ Distances \subseteq Int /\ Levels \subseteq Int
ASSUME StagedAssumption ==
  /\ Staged \subseteq Seq(Int \X Int) /\ << >> \notin Staged
  /\ Values \subseteq Int /\ Factors \subseteq Int

VARIABLES
  prepared,  \* prepared_rotation_keys
  exited     \* whether the library has ended the process, and over what

cheddarVars == <<hostVars, prepared, exited>>

(* CheddarBufKind: no export makes a Plaintext.                             *)
Kinds == {"Empty", "Ciphertext", "Plaintext", "Message"}

(* product: still to be relinearised.  known: FALSE once a raw key switch,  *)
(* or an operation the repository says nothing of, has gone into it.        *)
FreshCiphertext(np, power, values) ==
  [np |-> np, power |-> power, values |-> values, product |-> FALSE, known |-> TRUE]

EmptyBuffer ==
  [kind |-> "Empty", ct |-> FreshCiphertext(0, 0, <<Real(0)>>), msg |-> << >>]

(* createFromJson: distances that reduce to 0 need no key.                  *)
CreateFromJson ==
  {Normalized(raw, HalfDegree) : raw \in RotationKeys} \ {0}

CheddarInit ==
  /\ HostInit(EmptyBuffer)
  /\ prepared = CreateFromJson
  /\ exited = "no"

-----------------------------------------------------------------------------
(* Guards.                                                                 *)
isCiphertext(h) == h # Nothing /\ buffers[h].kind = "Ciphertext"
isPlaintext(h) == h # Nothing /\ buffers[h].kind = "Plaintext"

ct(h) == buffers[h].ct

NumSlots(c) == Len(c.values)

sameNp(c, d) == c.np = d.np
sameNpAndScale(c, d) == sameNp(c, d) /\ c.power = d.power

(* Fault: the key is looked up under the distance as given.                 *)
normalizedForFullWidth(raw, slots) ==
  LET dist == Normalized(raw, HalfDegree) IN
    IF dist \in prepared \cup {0} THEN dist ELSE -1

(* The key is the one of the distance the library will reduce to.           *)
normalizeRotationDistance(raw, slots) ==
  LET dist == Normalized(raw, slots) IN
    IF dist \in prepared \cup {0} THEN dist ELSE -1

-----------------------------------------------------------------------------
(* The library: what its operations compute, and what they assert.          *)
Joined(c, d, power, values) ==
  [np |-> c.np, power |-> power, values |-> values, product |-> FALSE,
   known |-> c.known /\ d.known]

ContextAdd(c, d) == Joined(c, d, c.power, Slotwise(ComplexSum, c.values, d.values))
ContextSub(c, d) ==
  Joined(c, d, c.power, Slotwise(ComplexDifference, c.values, d.values))
ContextMult(c, d) ==
  [Joined(c, d, c.power + d.power, Slotwise(ComplexProduct, c.values, d.values))
     EXCEPT !.product = TRUE]
ContextNeg(c) ==
  [c EXCEPT !.values = Slotwise(ComplexDifference, <<Real(0)>>, @)]
AddScalar(c, s) == [c EXCEPT !.values = Slotwise(ComplexSum, @, <<Real(s)>>)]
MultScalar(c, s) ==
  [c EXCEPT !.values = Slotwise(ComplexProduct, @, <<Real(s)>>), !.power = @ + 1]
ContextRelinearize(c) == [c EXCEPT !.product = FALSE]
ContextRescale(c) ==
  [c EXCEPT !.np = IF @ > 0 THEN @ - 1 ELSE 0, !.power = @ - 1]
ContextHMult(c, d) == ContextRescale(ContextRelinearize(ContextMult(c, d)))
ContextLevelDown(c, level) == [c EXCEPT !.np = level]
ContextHRot(c, dist) == [c EXCEPT !.values = Rotated(@, dist)]
ContextHConj(c) == [c EXCEPT !.values = Conjugated(@)]
ContextMultKey(c) == [c EXCEPT !.known = FALSE]

WidestOf(c, d) == Widest(c.values, d.values)

ContextHRotAdd(c, d, dist) ==
  ContextAdd(ContextHRot([c EXCEPT !.values = Spread(@, WidestOf(c, d))], dist), d)

(* GetRotationKey(dist), where the operation reduces dist modulo its slots. *)
KeyAsserted(dist, slots) == dist \in prepared /\ dist \in 1..(slots - 1)

LevelAsserted(c, level) == level \in 0..c.np

(* What the repository tells of the library: relinearising a product,       *)
(* rescaling with a level left, everything else on what is no product.  The *)
(* kernels hand over other operands all the same.                          *)
Told(op, c) ==
  /\ c.known
  /\ c.product <=> op = "RELINEARIZE"
  /\ op \in Rescaling => c.np > 0

-----------------------------------------------------------------------------
(* A kernel: -1 unless it accepts, else a library call, whose result turns  *)
(* the buffer into a ciphertext.  A call that ends the process answers      *)
(* nothing.                                                                *)
CheddarKernel(called, accepts, asserted, told, result) ==
  /\ Calling
  /\ UNCHANGED prepared
  /\ \/ ~accepts /\ call' = Refused /\ UNCHANGED <<buffers, exited>>
     \/ /\ accepts /\ asserted
        /\ call' = called
        /\ buffers' = [buffers EXCEPT ![called.result] =
                         [@ EXCEPT !.kind = "Ciphertext",
                                   !.ct = [result EXCEPT !.known = @ /\ told]]]
        /\ UNCHANGED exited
     \/ /\ accepts /\ ~(asserted /\ told)
        /\ exited' = IF asserted THEN "untold" ELSE "asserted"
        /\ UNCHANGED <<buffers, call>>

Unary(op, r, a, result) ==
  CheddarKernel(Called(op, r, <<a>>, 0, 0), isCiphertext(a), TRUE, Told(op, ct(a)), result)

ToldBoth(op, a, b) == Told(op, ct(a)) /\ Told(op, ct(b))

cheddar_add_cc(r, a, b) ==
  CheddarKernel(Called("ADD_CC", r, <<a, b>>, 0, 0),
    isCiphertext(a) /\ isCiphertext(b) /\ sameNpAndScale(ct(a), ct(b)),
    sameNpAndScale(ct(a), ct(b)), ToldBoth("ADD_CC", a, b),
    ContextAdd(ct(a), ct(b)))

cheddar_sub_cc(r, a, b) ==
  CheddarKernel(Called("SUB_CC", r, <<a, b>>, 0, 0),
    isCiphertext(a) /\ isCiphertext(b) /\ sameNpAndScale(ct(a), ct(b)),
    sameNpAndScale(ct(a), ct(b)), ToldBoth("SUB_CC", a, b),
    ContextSub(ct(a), ct(b)))

(* ADD_CP, SUB_CP and MULT_CP wait for an encoder: nothing they accept can  *)
(* exist, and what they would compute is left out.                          *)
cheddar_cp(op, r, a, b) ==
  CheddarKernel(Called(op, r, <<a, b>>, 0, 0),
    isCiphertext(a) /\ isPlaintext(b), FALSE, FALSE, ct(a))

cheddar_negate(r, a) == Unary("NEGATE", r, a, ContextNeg(ct(a)))

cheddar_mult_cc(r, a, b) ==
  CheddarKernel(Called("MULT_CC", r, <<a, b>>, 0, 0),
    isCiphertext(a) /\ isCiphertext(b) /\ sameNp(ct(a), ct(b)),
    sameNp(ct(a), ct(b)), ToldBoth("MULT_CC", a, b), ContextMult(ct(a), ct(b)))

Scaled(op, r, a, s, result) ==
  CheddarKernel(Called(op, r, <<a>>, 0, s), isCiphertext(a), TRUE, Told(op, ct(a)), result)

cheddar_add_cs(r, a, s) == Scaled("ADD_CS", r, a, s, AddScalar(ct(a), s))
cheddar_mult_cs(r, a, s) == Scaled("MULT_CS", r, a, s, MultScalar(ct(a), s))

cheddar_sub_sc(r, a, s) == Scaled("SUB_SC", r, a, s, AddScalar(ContextNeg(ct(a)), s))

-----------------------------------------------------------------------------
cheddar_relinearize(r, a) == Unary("RELINEARIZE", r, a, ContextRelinearize(ct(a)))

cheddar_rescale(r, a) == Unary("RESCALE", r, a, ContextRescale(ct(a)))

(* ROTATE, and HROT, which calls it; Copy when there is nothing to rotate.  *)
cheddar_rotate(op, r, a, n) ==
  LET dist == normalizeRotationDistance(n, NumSlots(ct(a))) IN
    CheddarKernel(Called(op, r, <<a>>, n, 0),
      isCiphertext(a) /\ dist >= 0,
      dist = 0 \/ KeyAsserted(dist, NumSlots(ct(a))),
      dist = 0 \/ Told(op, ct(a)),
      IF dist = 0 THEN ct(a) ELSE ContextHRot(ct(a), dist))

cheddar_conjugate(r, a) == Unary("CONJUGATE", r, a, ContextHConj(ct(a)))

(* A raw key switch; distance 0 asks for the multiplication key.            *)
cheddar_mult_key(r, a, n) ==
  LET index == normalizeRotationDistance(n, HalfDegree) IN
    CheddarKernel(Called("MULT_KEY", r, <<a>>, n, 0),
      isCiphertext(a) /\ (n = 0 \/ index > 0),
      n = 0 \/ KeyAsserted(index, HalfDegree),
      Told("MULT_KEY", ct(a)),
      ContextMultKey(ct(a)))

(* Fault: Mult is called where HMult, which relinearises, should be.        *)
hmult_without_key(r, a, b) ==
  CheddarKernel(Called("HMULT", r, <<a, b>>, 0, 0),
    isCiphertext(a) /\ isCiphertext(b) /\ sameNp(ct(a), ct(b)),
    sameNp(ct(a), ct(b)), ToldBoth("HMULT", a, b),
    ContextRescale(ContextMult(ct(a), ct(b))))

cheddar_hmult(r, a, b) ==
  CheddarKernel(Called("HMULT", r, <<a, b>>, 0, 0),
    isCiphertext(a) /\ isCiphertext(b) /\ sameNp(ct(a), ct(b)),
    sameNp(ct(a), ct(b)), ToldBoth("HMULT", a, b), ContextHMult(ct(a), ct(b)))

cheddar_hrot_add(r, a, b, n) ==
  LET dist == normalizeRotationDistance(n, WidestOf(ct(a), ct(b))) IN
    CheddarKernel(Called("HROT_ADD", r, <<a, b>>, n, 0),
      /\ isCiphertext(a) /\ isCiphertext(b) /\ sameNpAndScale(ct(a), ct(b))
      /\ dist >= 0,
      sameNpAndScale(ct(a), ct(b)) /\ (dist = 0 \/ KeyAsserted(dist, WidestOf(ct(a), ct(b)))),
      ToldBoth("HROT_ADD", a, b),
      IF dist = 0 THEN ContextAdd(ct(a), ct(b)) ELSE ContextHRotAdd(ct(a), ct(b), dist))

cheddar_hconj_add(r, a, b) ==
  CheddarKernel(Called("HCONJ_ADD", r, <<a, b>>, 0, 0),
    isCiphertext(a) /\ isCiphertext(b) /\ sameNpAndScale(ct(a), ct(b)),
    sameNpAndScale(ct(a), ct(b)), ToldBoth("HCONJ_ADD", a, b),
    ContextAdd(ContextHConj(ct(a)), ct(b)))

cheddar_level_down(r, a, level) ==
  CheddarKernel(Called("LEVEL_DOWN", r, <<a>>, level, 0),
    isCiphertext(a) /\ level >= 0 /\ level <= ct(a).np,
    LevelAsserted(ct(a), level), Told("LEVEL_DOWN", ct(a)), ContextLevelDown(ct(a), level))

-----------------------------------------------------------------------------
(* The host's side.                                                        *)
Encryption(h, values) ==
  /\ Put(h, [buffers[h] EXCEPT !.kind = "Ciphertext",
                               !.ct = FreshCiphertext(FreshLevel, 1, values)])
  /\ UNCHANGED <<prepared, exited>>

(* One value is a message of one slot.                                      *)
fhn_encrypt_f64(h) ==
  /\ Provisioning /\ buffers[h].kind = "Empty"
  /\ \E v \in Values : Encryption(h, <<Real(v)>>)

(* A test writes the message through a cast: no export does.                *)
StageMessage(h) ==
  /\ Provisioning /\ buffers[h].kind = "Empty"
  /\ \E m \in Staged : Put(h, [buffers[h] EXCEPT !.kind = "Message", !.msg = m])
  /\ UNCHANGED <<prepared, exited>>

cheddar_fhn_buffer_encrypt_message(h) ==
  /\ buffers[h].kind = "Message"
  /\ Encryption(h, buffers[h].msg)

(* Decryption is a library call too: of a product, say, it may end the      *)
(* process or yield anything.                                              *)
EndsOver(h) ==
  /\ isCiphertext(h) /\ ~Told("DECRYPT", ct(h))
  /\ exited' = "untold"
  /\ UNCHANGED <<hostVars, prepared>>

fhn_decrypt_f64(h) ==
  /\ isCiphertext(h)
  /\ call' = Decrypted(h, IF Told("DECRYPT", ct(h)) THEN ct(h).values[1][1] ELSE Nothing)
  /\ UNCHANGED <<buffers, calls, prepared, exited>>

(* Reads a ciphertext by turning its buffer into a message, in place.       *)
cheddar_fhn_buffer_read_complex(h) ==
  /\ isCiphertext(h)
  /\ \E m \in {ct(h).values} \cup (IF Told("DECRYPT", ct(h)) THEN {} ELSE Staged) :
       Put(h, [buffers[h] EXCEPT !.kind = "Message", !.msg = m])
  /\ UNCHANGED <<prepared, exited>>

-----------------------------------------------------------------------------
UnaryCalls(r, a) ==
  \/ cheddar_negate(r, a) \/ cheddar_relinearize(r, a)
  \/ cheddar_rescale(r, a) \/ cheddar_conjugate(r, a)
  \/ \E s \in Factors :
       cheddar_add_cs(r, a, s) \/ cheddar_mult_cs(r, a, s) \/ cheddar_sub_sc(r, a, s)
  \/ \E n \in Distances :
       \/ \E op \in {"ROTATE", "HROT"} : cheddar_rotate(op, r, a, n)
       \/ cheddar_mult_key(r, a, n)
  \/ \E level \in Levels : cheddar_level_down(r, a, level)

BinaryCalls(r, a, b) ==
  \/ cheddar_add_cc(r, a, b) \/ cheddar_sub_cc(r, a, b) \/ cheddar_mult_cc(r, a, b)
  \/ \E op \in {"ADD_CP", "SUB_CP", "MULT_CP"} : cheddar_cp(op, r, a, b)
  \/ cheddar_hmult(r, a, b) \/ cheddar_hconj_add(r, a, b)
  \/ \E n \in Distances : cheddar_hrot_add(r, a, b, n)

HostCalls(h) ==
  \/ fhn_encrypt_f64(h) \/ StageMessage(h) \/ cheddar_fhn_buffer_encrypt_message(h)
  \/ fhn_decrypt_f64(h) \/ cheddar_fhn_buffer_read_complex(h) \/ EndsOver(h)

CheddarNext ==
  /\ exited = "no"
  /\ \/ \E h \in Handles : HostCalls(h)
     \/ \E r \in Handles, a \in Handles \cup {Nothing} :
          \/ UnaryCalls(r, a)
          \/ \E b \in Handles \cup {Nothing} : BinaryCalls(r, a, b)

CheddarSpec == CheddarInit /\ [][CheddarNext]_cheddarVars

-----------------------------------------------------------------------------
(* "cheddar's Context AssertTrue()s (std::exit)": the kernels' own guards   *)
(* catch every assertion the comments name, before the library would make   *)
(* it.  Operands meet in the same level and scale, a target level exists,   *)
(* and a rotation asks for the key of the distance the library will reduce  *)
(* to, at the slots of the one operand or the wider of two, whatever calls  *)
(* led there (CheddarFhnBackend.cpp:153-196, 455-460).  A process may still  *)
(* end over what is not told of the library.                               *)
GuardsCatchAssertions == exited # "asserted"
=============================================================================
