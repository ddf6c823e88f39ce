----------------------------- MODULE DeviceTree -----------------------------
(***************************************************************************)
(* The device tree parsers of RexOS, kernel/dtb.c.                         *)
(*                                                                         *)
(* Each parser walks the tokens of the blob once, with a few variables that *)
(* say where in the tree it is.  They share nothing, so here all take each *)
(* token together.  The blob is the environment: a tree as the firmware    *)
(* writes it, one token after the other, properties before subnodes.  The  *)
(* value of a property is the number of the node it is in, so that a value *)
(* taken from the wrong node shows.                                        *)
(***************************************************************************)
EXTENDS Integers, Sequences, FiniteSets

CONSTANTS
  MaxNodes,  \* nodes in a tree
  MaxDepth,  \* depth of the deepest
  Routes     \* values of interrupts-extended: sequences of interrupt numbers

Kind    == {"root", "memory", "cpus", "cpu", "serial", "clint", "plic", "other",
             "plain"}
Device  == {"serial", "clint", "plic"}
External == 9  \* the supervisor external interrupt, in interrupts-extended

ASSUME TreeAssumption ==
  /\ MaxNodes \in Nat /\ MaxDepth \in Nat
  /\ \A r \in Routes : r \in Seq(Nat) /\ r # <<>>

VARIABLES
  path,    \* the tree: the open nodes, [kind, id, props, leaf]
  nodes,   \* nodes begun so far
  kinds,   \* the kinds of the nodes begun so far
  truth,   \* what the tree says, taken from the nodes themselves
  inside_memory, cpus_depth, inside_plic_context,    \* the parsers' variables
  active_device, dev_depth, curr_depth, base,
  found,   \* ram, timebase_freq, hart, context_idx, uart, clint, plic
  panic    \* the argument of kpanic, or 0

blob    == <<path, nodes, kinds, truth>>
locals  == <<inside_memory, cpus_depth, inside_plic_context,
             active_device, dev_depth, curr_depth, base>>
vars    == <<blob, locals, found, panic>>

Nothing == [ram |-> 0, timebase |-> 0, harts |-> 0, context |-> 0,
            serial |-> 0, clint |-> 0, plic |-> 0]

Init ==
  /\ path = <<>> /\ nodes = 0 /\ kinds = {} /\ truth = Nothing
  /\ inside_memory = FALSE /\ cpus_depth = 0 /\ inside_plic_context = FALSE
  /\ active_device = "none" /\ dev_depth = 0 /\ curr_depth = 0 /\ base = 0
  /\ found = Nothing /\ panic = 0

Depth == Len(path)
Here  == path[Depth]

-----------------------------------------------------------------------------
(* The trees of the machines RexOS runs on *)

\* One memory and one cpus node, below the root; cpu nodes in cpus; one device
\* of each kind, anywhere, with no register of another node inside it.
MayBegin(kind) ==
  /\ nodes < MaxNodes /\ Depth < MaxDepth
  /\ (kind = "root") = (nodes = 0)
  /\ nodes > 0 => Depth > 0
  /\ (\E i \in 1..Depth : path[i].kind \in Device) => kind = "plain"
  /\ kind \in {"memory", "cpus"} => Depth = 1
  /\ kind \in {"memory", "cpus"} \cup Device => kind \notin kinds
  /\ kind = "cpu" => Here.kind = "cpus"

Needs(kind) ==
  CASE kind = "memory" -> {"reg"}
    [] kind = "cpus"   -> {"timebase-frequency"}
    [] kind = "plic"   -> {"reg", "compatible", "interrupts-extended"}
    [] kind = "clint"  -> {"reg", "compatible", "interrupts-extended"}
    [] kind = "serial" -> {"reg", "compatible"}
    [] OTHER           -> {}

Has(kind) == Needs(kind) \cup (IF kind \in {"cpu", "other"} THEN {"reg"} ELSE {})

-----------------------------------------------------------------------------
(* FDT_BEGIN_NODE *)

\* Variant: only the nodes directly in cpus are counted as inside.
CpusDepthShallow(kind) == IF kind = "cpus" THEN 1 ELSE cpus_depth

CpusDepthAfter(kind) ==
  IF kind = "cpus" THEN 1 ELSE IF cpus_depth > 0 THEN cpus_depth + 1 ELSE 0

\* Variant: the node that is left is not forgotten.
InsideMemoryStays(kind) == inside_memory \/ kind = "memory"

InsideMemory(kind) == kind = "memory"

BeginNode(kind) ==
  /\ panic = 0 /\ MayBegin(kind)
  /\ path' = Append(IF Depth = 0 THEN <<>> ELSE [path EXCEPT ![Depth].leaf = FALSE],
                    [kind |-> kind, id |-> nodes + 1, props |-> {}, leaf |-> TRUE])
  /\ nodes' = nodes + 1 /\ kinds' = kinds \cup {kind}
  /\ truth' = [truth EXCEPT !.harts = @ + IF kind = "cpu" THEN 1 ELSE 0]
  /\ inside_memory' = InsideMemory(kind)
  /\ inside_plic_context' = (kind = "plic")
  /\ cpus_depth' = CpusDepthAfter(kind)
  /\ curr_depth' = curr_depth + 1
  /\ found' = [found EXCEPT !.harts =
                 @ + IF kind = "cpu" /\ cpus_depth > 0 THEN 1 ELSE 0]
  /\ UNCHANGED <<active_device, dev_depth, base, panic>>

-----------------------------------------------------------------------------
(* FDT_PROP *)

\* The property is in the blob; the tree says value of what.
Property(name, what, value) ==
  /\ panic = 0 /\ Depth > 0 /\ Here.leaf
  /\ name \in Has(Here.kind) \ Here.props
  /\ path' = [path EXCEPT ![Depth].props = @ \cup {name}]
  /\ truth' = IF what \in DOMAIN truth THEN [truth EXCEPT ![what] = value] ELSE truth
  /\ UNCHANGED <<nodes, kinds, inside_memory, cpus_depth, inside_plic_context,
                 curr_depth>>

\* Any node's reg is kept for a device that may end next.
Reg ==
  /\ Property("reg", IF Here.kind = "memory" THEN "ram" ELSE Here.kind, Here.id)
  /\ base' = Here.id
  /\ found' = [found EXCEPT !.ram = IF inside_memory THEN Here.id ELSE @]
  /\ UNCHANGED <<active_device, dev_depth, panic>>

\* dtb_compatible_match finds the device's name in the list.
Compatible ==
  /\ Property("compatible", "nothing", 0)
  /\ active_device' = Here.kind /\ dev_depth' = curr_depth
  /\ UNCHANGED <<base, found, panic>>

TimebaseFrequency ==
  /\ Property("timebase-frequency", "timebase", Here.id)
  /\ found' = [found EXCEPT !.timebase = IF cpus_depth > 0 THEN Here.id ELSE @]
  /\ UNCHANGED <<active_device, dev_depth, base, panic>>

\* The index of the first supervisor context; its length if there is none
FirstExternal(r) ==
  CHOOSE i \in 0..Len(r) : /\ i = Len(r) \/ r[i + 1] = External
                           /\ \A j \in 0..i - 1 : r[j + 1] # External

\* The PLIC lists its contexts; the CLINT has a property of that name too.
InterruptsExtended(r) ==
  /\ Property("interrupts-extended",
              IF Here.kind = "plic" THEN "context" ELSE "nothing",
              Cardinality({i \in DOMAIN r : \A j \in 1..i : r[j] # External}))
  /\ found' = [found EXCEPT !.context =
                 IF inside_plic_context /\ FirstExternal(r) < Len(r)
                 THEN FirstExternal(r) ELSE @]
  /\ panic' = IF inside_plic_context /\ FirstExternal(r) = Len(r) THEN 117 ELSE 0
  /\ UNCHANGED <<active_device, dev_depth, base>>

-----------------------------------------------------------------------------
(* FDT_END_NODE *)

CpusDepthLeft == IF cpus_depth > 0 THEN cpus_depth - 1 ELSE 0

\* Variant: the depth is not compared.
DeviceEndsAnywhere(depth) == TRUE

DeviceEnds(depth) == depth = dev_depth

EndNode ==
  /\ panic = 0 /\ Depth > 0 /\ Needs(Here.kind) \subseteq Here.props
  /\ path' = [i \in 1..Depth - 1 |-> path[i]]
  /\ cpus_depth' = CpusDepthLeft
  /\ curr_depth' = curr_depth - 1
  /\ IF active_device # "none" /\ DeviceEnds(curr_depth)
     THEN /\ found' = [found EXCEPT ![active_device] = base]
          /\ active_device' = "none" /\ base' = 0 /\ dev_depth' = 0
     ELSE UNCHANGED <<found, active_device, base, dev_depth>>
  /\ UNCHANGED <<nodes, kinds, truth, inside_memory, inside_plic_context, panic>>

Next ==
  \/ \E kind \in Kind : BeginNode(kind)
  \/ Reg \/ Compatible \/ TimebaseFrequency
  \/ \E r \in Routes : InterruptsExtended(r)
  \/ EndNode

Spec == Init /\ [][Next]_vars

-----------------------------------------------------------------------------
TypeOK ==
  /\ inside_memory \in BOOLEAN /\ inside_plic_context \in BOOLEAN
  /\ cpus_depth \in 0..MaxDepth /\ curr_depth \in 0..MaxDepth
  /\ dev_depth \in 0..MaxDepth /\ base \in 0..MaxNodes
  /\ active_device \in Device \cup {"none"}
  /\ found \in [DOMAIN Nothing -> Nat]
  /\ panic \in {0, 117}

\* Memory, time base and PLIC context come from their own nodes, whatever other
\* nodes have properties of the same name (dtb.c:38-90, 92-146, 148-202): the
\* flags that stand for "in this node" are only cleared by the next node.
BootFactsExact ==
  /\ found.ram = truth.ram
  /\ found.timebase = truth.timebase
  /\ panic = 0 => found.context = truth.context

\* Exactly the cpu nodes are counted, at whatever depth the walk left and came
\* back to cpus in between (dtb.c:204-250); the number sizes global_closet.
HartsExact == found.harts = truth.harts

\* A device has the registers of its own node, although base and size are
\* overwritten by every reg on the way and a device may name itself before or
\* after its reg (dtb.c:264-354).
DevicesExact ==
  \A d \in Device :
    LET ended == d \in kinds /\ \A i \in DOMAIN path : path[i].kind # d
    IN  found[d] = IF ended THEN truth[d] ELSE 0
=============================================================================
