-------------------------- MODULE MCMovementPlanner --------------------------
(***************************************************************************)
(* The requests TLC plans: every small program shape crossed with budgets,  *)
(* pinned sets and policies, then the same in bytes, then calls that        *)
(* analyze must turn down.                                                 *)
(***************************************************************************)
EXTENDS MovementPlanner

(* Unary and binary operand lists over a set of ids, order disregarded.     *)
Args(S) == {<<a, b, 0, 0>> : a \in S, b \in S \cup {Unused}}
ArgLists(S) == {x \in Args(S) : x[2] = Unused \/ x[1] < x[2]}

Inst(op, res, args, param) ==
  [op |-> op, res |-> res, args |-> args, param |-> param]

(* Programs over inputs 1..n with one instruction per entry of ops, each    *)
(* reading any one or two ids defined before it.                            *)
Operands1To(n, k) ==
  LET lists[i \in 0..k] ==
        IF i = 0 THEN {<< >>}
        ELSE {Append(l, a) : l \in lists[i - 1], a \in ArgLists(1..(n + i - 1))}
  IN  lists[k]

Shapes(n, ops) ==
  {[inputs |-> [k \in 1..n |-> k],
    code |-> [i \in DOMAIN ops |-> Inst(ops[i], n + i, args[i], 0)]] :
     args \in Operands1To(n, Len(ops))}

Request(p, pinned, budget, policy, model) ==
  [prog |-> p, pinned |-> pinned, budget |-> budget,
   policy |-> policy, model |-> model]

(* Slot mode: programs of three instructions over three inputs.             *)
SlotJobs ==
  {Request(p, {6}, budget, policy, NoModel) :
     p \in Shapes(3, <<"ADD_CC", "ADD_CC", "ADD_CC">>),
     budget \in {2, 3, 4}, policy \in Policies}

(* Byte mode: fresh buffers cost 3, then 2, then 1.                         *)
Effect ==
  [op \in OpCodes |->
     CASE op \in {"ADD_CC", "SUB_CC"} -> "preserve"
       [] op \in {"MULT_CC", "RESCALE"} -> "consume"
       [] op = "LEVEL_DOWN" -> "set_param0"
       [] op = "MAD" -> "unknown"
       [] OTHER -> "undeclared"]

Bytes == [fresh |-> 2, bytes |-> <<1, 2, 3>>, effect |-> Effect]

ByteJobs ==
  {Request(p, kept[1], kept[2], "belady", Bytes) :
     p \in UNION {Shapes(2, ops) : ops \in [1..3 -> {"ADD_CC", "MULT_CC"}]},
     kept \in {<<{5}, 8>>, <<{5}, 6>>, <<{3, 5}, 6>>}}

(* Requests with a fault of every kind the code tests for.                  *)
Two(op, first, second) ==
  [inputs |-> <<1, 2>>,
   code |-> <<Inst(op, 3, <<1, 2, 0, 0>>, first),
              Inst(op, 4, <<3, 1, 0, 0>>, second)>>]

BadPrograms ==
  {[inputs |-> <<1, 1>>, code |-> <<Inst("ADD_CC", 3, <<1, 1, 0, 0>>, 0)>>],
   [inputs |-> <<0>>, code |-> <<Inst("ADD_CC", 3, <<0, 0, 0, 0>>, 0)>>],
   [inputs |-> <<1>>, code |-> <<Inst("ADD_CC", 0, <<1, 0, 0, 0>>, 0)>>],
   [inputs |-> <<1>>, code |-> <<Inst("ADD_CC", 1, <<1, 0, 0, 0>>, 0)>>],
   [inputs |-> <<1>>, code |-> <<Inst("ADD_CC", 3, <<3, 0, 0, 0>>, 0)>>],
   [inputs |-> <<1>>, code |-> <<Inst("ADD_CC", 3, <<4, 0, 0, 0>>, 0),
                                 Inst("ADD_CC", 4, <<1, 0, 0, 0>>, 0)>>],
   [inputs |-> <<1>>, code |-> <<Inst("ADD_CC", 3, <<1, 0, 0, 0>>, 0),
                                 Inst("ADD_CC", 3, <<1, 0, 0, 0>>, 0)>>]}

Models ==
  {NoModel, Bytes,
   [Bytes EXCEPT !.fresh = -1], [Bytes EXCEPT !.fresh = 3],
   [Bytes EXCEPT !.bytes = <<1, 0, 3>>]}

FaultJobs ==
  {Request(p, {4}, budget, "belady", model) :
     p \in BadPrograms
           \cup {Two("LEVEL_DOWN", l, k) : l \in -1..3, k \in {0, 2}}
           \cup {Two(op, 0, 0) : op \in {"MULT_CC", "MAD", "NEGATE", "SUB_CC"}}
           \cup {[inputs |-> <<1, 2>>, code |-> << >>]},
     budget \in {0, 2, 7, 9}, model \in Models}

=============================================================================
