-------------------------- MODULE DeviceTreeProofs --------------------------
(* Theorems about DeviceTree, for trees of any size and depth *)
EXTENDS DeviceTree, FiniteSetTheorems, NaturalsInduction, SequenceTheorems, TLAPS

Name  == {"reg", "timebase-frequency", "compatible", "interrupts-extended"}
Node  == [kind : Kind, id : Nat, props : SUBSET Name, leaf : BOOLEAN]
Facts == {"ram", "timebase", "harts", "context", "serial", "clint", "plic"}

\* The open nodes: a node with a subnode gets no more properties, a device has
\* only plain nodes inside, and cpus is right below the root.
PathInv ==
  /\ path \in Seq(Node) /\ Len(path) <= MaxDepth
  /\ nodes \in 0..MaxNodes /\ kinds \subseteq Kind
  /\ \A i \in 1..Len(path) :
       /\ path[i].kind \in kinds /\ path[i].id <= nodes
       /\ path[i].leaf => i = Len(path)
       /\ path[i].kind = "cpus" => i = 2
       /\ path[i].kind \in Device =>
            \A j \in 1..Len(path) : j > i => path[j].kind = "plain"

\* What the walk knows of the place it is at: a flag is only right while the
\* node it was set for can have properties, cpus_depth is the depth below cpus.
PlaceInv ==
  /\ curr_depth = Len(path)
  /\ Len(path) > 0 /\ path[Len(path)].leaf =>
       /\ inside_memory = (path[Len(path)].kind = "memory")
       /\ inside_plic_context = (path[Len(path)].kind = "plic")
  /\ cpus_depth = IF \E i \in 1..Len(path) : path[i].kind = "cpus" THEN Len(path) - 1 ELSE 0

\* The open device is the active one as soon as it has its name, and base is
\* its own as soon as it has its reg, in either order.
DeviceInv ==
  /\ active_device # "none" =>
       /\ dev_depth \in 1..Len(path)
       /\ path[dev_depth].kind = active_device
  /\ \A i \in 1..Len(path) : path[i].kind \in Device =>
       /\ "compatible" \in path[i].props => active_device = path[i].kind /\ dev_depth = i
       /\ "reg" \in path[i].props => base = path[i].id /\ truth[path[i].kind] = path[i].id

TreeTypeOK ==
  /\ TypeOK
  /\ truth \in [Facts -> Nat]

TreeInv ==
  /\ TreeTypeOK /\ PathInv /\ PlaceInv /\ DeviceInv
  /\ BootFactsExact /\ HartsExact /\ DevicesExact
-----------------------------------------------------------------------------
LEMMA NodeTypes ==
  ASSUME PathInv, NEW i \in 1..Len(path)
  PROVE  /\ path[i] \in Node /\ path[i].kind \in Kind /\ path[i].id \in Nat
         /\ path[i].props \subseteq Name /\ path[i].leaf \in BOOLEAN
<1>1. path[i] \in Node  BY DEF PathInv
<1> QED  BY <1>1 DEF Node

LEMMA HereFacts ==
  ASSUME PathInv, Len(path) > 0
  PROVE  Len(path) \in 1..Len(path) /\ Here \in Node /\ Here = path[Len(path)]
BY DEF PathInv, Here, Depth

LEMMA BeginPath ==
  ASSUME PathInv, NEW kind \in Kind, BeginNode(kind)
  PROVE  /\ path' \in Seq(Node) /\ Len(path') = Len(path) + 1
         /\ path'[Len(path')] = [kind |-> kind, id |-> nodes + 1, props |-> {}, leaf |-> TRUE]
         /\ \A i \in 1..Len(path) :
              /\ path'[i].kind = path[i].kind /\ path'[i].id = path[i].id
              /\ path'[i].props = path[i].props /\ path'[i].leaf = FALSE
<1> DEFINE new == [kind |-> kind, id |-> nodes + 1, props |-> {}, leaf |-> TRUE]
           rest == IF Depth = 0 THEN <<>> ELSE [path EXCEPT ![Depth].leaf = FALSE]
<1>1. path' = Append(rest, new)  BY DEF BeginNode
<1>2. new \in Node  BY DEF Node, PathInv
<1>3. /\ rest \in Seq(Node) /\ Len(rest) = Len(path)
      /\ \A i \in 1..Len(path) :
           /\ rest[i].kind = path[i].kind /\ rest[i].id = path[i].id
           /\ rest[i].props = path[i].props /\ rest[i].leaf = FALSE
  <2>1. CASE Depth = 0  BY <2>1 DEF Depth
  <2>2. CASE Depth # 0
    <3>1. Here \in Node /\ Depth \in 1..Len(path)  BY <2>2, HereFacts DEF Depth, PathInv
    <3>2. rest = [path EXCEPT ![Depth] = [Here EXCEPT !.leaf = FALSE]]
      BY <2>2 DEF Here
    <3>3. [Here EXCEPT !.leaf = FALSE] \in Node  BY <3>1 DEF Node
    <3>4. \A i \in 1..Len(path) : path[i] \in Node /\ path[i].leaf \in BOOLEAN
      BY NodeTypes
    <3>5. /\ rest \in Seq(Node) /\ Len(rest) = Len(path)
          /\ \A i \in 1..Len(path) :
               rest[i] = IF i = Depth THEN [Here EXCEPT !.leaf = FALSE] ELSE path[i]
      <4>1. path \in Seq(Node)  BY DEF PathInv
      <4> HIDE DEF rest
      <4> QED  BY ExceptSeq, <3>1, <3>2, <3>3, <4>1
    <3>7. \A i \in 1..Len(path) : i # Depth => path[i].leaf = FALSE
      BY <3>4 DEF PathInv, Depth
    <3> QED  BY <3>1, <3>5, <3>7 DEF Node, Here
  <2> QED  BY <2>1, <2>2
<1> QED  BY <1>1, <1>2, <1>3

\* A property changes nothing but the props of the node it is in.
LEMMA PropertyPath ==
  ASSUME PathInv, NEW name, NEW what, NEW value, Property(name, what, value)
  PROVE  /\ Len(path) > 0 /\ Here \in Node /\ Here.leaf /\ name \in Has(Here.kind) \ Here.props
         /\ path' \in Seq(Node) /\ Len(path') = Len(path)
         /\ \A i \in 1..Len(path) :
              /\ path'[i].kind = path[i].kind /\ path'[i].id = path[i].id
              /\ path'[i].leaf = path[i].leaf
              /\ path'[i].props = IF i = Len(path) THEN path[i].props \cup {name} ELSE path[i].props
<1> USE DEF Property
<1>1. Here \in Node /\ Depth \in 1..Len(path) /\ Depth = Len(path)
  BY HereFacts DEF Depth, PathInv
<1>2. name \in Name  BY DEF Has, Needs, Name
<1> DEFINE new == [Here EXCEPT !.props = Here.props \cup {name}]
<1>3. path' = [path EXCEPT ![Depth] = new]
  BY DEF Here
<1>4. /\ new \in Node /\ new.kind = Here.kind /\ new.id = Here.id /\ new.leaf = Here.leaf
      /\ new.props = Here.props \cup {name}
  BY <1>1, <1>2 DEF Node
<1> HIDE DEF new
<1>5. /\ path' \in Seq(Node) /\ Len(path') = Len(path)
      /\ \A i \in 1..Len(path) : path'[i] = IF i = Depth THEN new ELSE path[i]
  <2> HIDE DEF Property
  <2>1. path \in Seq(Node)  BY DEF PathInv
  <2>2. path' = [path EXCEPT ![Len(path)] = new] /\ Len(path) \in 1..Len(path) /\ new \in Node
    BY <1>1, <1>3, <1>4
  <2>3. /\ [path EXCEPT ![Len(path)] = new] \in Seq(Node)
        /\ Len([path EXCEPT ![Len(path)] = new]) = Len(path)
        /\ \A j \in 1..Len(path) :
             [path EXCEPT ![Len(path)] = new][j] = IF j = Len(path) THEN new ELSE path[j]
    BY <2>1, <2>2, ExceptSeq
  <2> QED  BY <2>2, <2>3, <1>1
<1>6. Len(path) > 0 /\ Here.leaf /\ name \in Has(Here.kind) \ Here.props
  BY <1>1
<1>7. Here = path[Len(path)]  BY <1>1 DEF Here
<1> HIDE DEF Property
<1>8. \A i \in 1..Len(path) :
        /\ path'[i].kind = path[i].kind /\ path'[i].id = path[i].id
        /\ path'[i].leaf = path[i].leaf
        /\ path'[i].props = IF i = Len(path) THEN path[i].props \cup {name} ELSE path[i].props
  BY <1>1, <1>4, <1>5, <1>7
<1> QED  BY <1>1, <1>5, <1>6, <1>8

LEMMA EndPath ==
  ASSUME PathInv, EndNode
  PROVE  /\ Len(path) > 0 /\ Here \in Node /\ Needs(Here.kind) \subseteq Here.props
         /\ path' \in Seq(Node) /\ Len(path') = Len(path) - 1
         /\ \A i \in 1..Len(path) - 1 : path'[i] = path[i]
<1> USE DEF EndNode, Depth
<1>1. path' = [i \in 1..Len(path) - 1 |-> path[i]] /\ Len(path) > 0 /\ Len(path) \in Nat
  BY DEF PathInv
<1>2. \A i \in 1..Len(path) - 1 : path[i] \in Node  BY DEF PathInv
<1>3. path' \in Seq(Node) /\ Len(path') = Len(path) - 1
  BY <1>1, <1>2
<1> QED  BY <1>1, <1>3, HereFacts

LEMMA BeginKeepsPath ==
  ASSUME TreeAssumption, PathInv, NEW kind \in Kind, BeginNode(kind)
  PROVE  PathInv'
<1> USE DEF BeginNode, MayBegin, Depth
<1>1. Len(path') <= MaxDepth /\ nodes' \in 0..MaxNodes /\ kinds' \subseteq Kind
  BY BeginPath DEF PathInv, TreeAssumption
<1>2. ASSUME NEW i \in 1..Len(path')
      PROVE  /\ path'[i].kind \in kinds' /\ path'[i].id <= nodes'
             /\ path'[i].leaf => i = Len(path')
             /\ path'[i].kind = "cpus" => i = 2
             /\ path'[i].kind \in Device =>
                  \A j \in 1..Len(path') : j > i => path'[j].kind = "plain"
  <2>1. CASE i = Len(path')
    BY <2>1, BeginPath DEF PathInv
  <2>2. CASE i # Len(path')
    <3>1. i \in 1..Len(path)  BY <2>2, BeginPath DEF PathInv
    <3>2. path[i].kind \in Device => kind = "plain"  BY <3>1
    <3>3. path'[i].kind = path[i].kind /\ path'[i].id = path[i].id /\ path'[i].leaf = FALSE
      BY <3>1, BeginPath
    <3>4. path[i].id <= nodes /\ path[i].id \in Nat /\ nodes \in Nat  BY <3>1, NodeTypes DEF PathInv
    <3>5. ASSUME path[i].kind \in Device, NEW j \in 1..Len(path'), j > i
          PROVE  path'[j].kind = "plain"
      <4>1. CASE j = Len(path')  BY <3>2, <3>5, <4>1, BeginPath
      <4>2. CASE j # Len(path')
        <5>1. j \in 1..Len(path)  BY <3>5, <4>2, BeginPath DEF PathInv
        <5> QED  BY <3>1, <3>5, <5>1, BeginPath DEF PathInv
      <4> QED  BY <4>1, <4>2
    <3>6. /\ path'[i].kind \in kinds' /\ path'[i].id <= nodes'
          /\ path'[i].kind = "cpus" => i = 2
      BY <3>1, <3>3, <3>4 DEF PathInv
    <3> QED  BY <3>3, <3>5, <3>6
  <2> QED  BY <2>1, <2>2
<1> QED  BY <1>1, <1>2, BeginPath DEF PathInv

LEMMA PropertyKeepsPath ==
  ASSUME PathInv, NEW name, NEW what, NEW value, Property(name, what, value)
  PROVE  PathInv'
<1>1. /\ path' \in Seq(Node) /\ Len(path') = Len(path) /\ nodes' = nodes /\ kinds' = kinds
      /\ \A i \in 1..Len(path) : /\ path'[i].kind = path[i].kind /\ path'[i].id = path[i].id
                                 /\ path'[i].leaf = path[i].leaf
  BY PropertyPath DEF Property
<1> QED  BY <1>1 DEF PathInv

LEMMA EndKeepsPath ==
  ASSUME PathInv, EndNode  PROVE PathInv'
<1>1. Len(path) \in Nat /\ nodes' = nodes /\ kinds' = kinds  BY DEF PathInv, EndNode
<1>2. \A i \in 1..Len(path) - 1 : i \in 1..Len(path)  BY <1>1
<1>3. path' \in Seq(Node) /\ Len(path') = Len(path) - 1 /\ \A i \in 1..Len(path') : path'[i] = path[i]
  BY EndPath
<1>4. \A i \in 1..Len(path') : i \in 1..Len(path) /\ i # Len(path)  BY <1>1, <1>3
<1>5. \A i \in 1..Len(path') :
        /\ path'[i].kind \in kinds' /\ path'[i].id <= nodes'
        /\ path'[i].leaf => i = Len(path')
        /\ path'[i].kind = "cpus" => i = 2
  BY <1>1, <1>3, <1>4 DEF PathInv
<1>6. \A i, j \in 1..Len(path') :
        path'[i].kind \in Device /\ j > i => path'[j].kind = "plain"
  BY <1>1, <1>3, <1>4 DEF PathInv
<1>7. Len(path') <= MaxDepth  BY <1>1, <1>3, TreeAssumption DEF PathInv, TreeAssumption
<1> QED  BY <1>1, <1>3, <1>5, <1>6, <1>7 DEF PathInv
-----------------------------------------------------------------------------
LEMMA BeginKeepsPlace ==
  ASSUME TreeAssumption, TreeInv, NEW kind \in Kind, BeginNode(kind)
  PROVE  PlaceInv'
<1> USE DEF TreeInv, BeginNode, MayBegin, Depth
<1>1. curr_depth' = Len(path')  BY BeginPath DEF PlaceInv, PathInv
<1>2. /\ inside_memory' = (path'[Len(path')].kind = "memory")
      /\ inside_plic_context' = (path'[Len(path')].kind = "plic")
  BY BeginPath DEF InsideMemory
<1>3. cpus_depth' = IF \E i \in 1..Len(path') : path'[i].kind = "cpus" THEN Len(path') - 1 ELSE 0
  <2>1. Len(path) \in Nat /\ Len(path') = Len(path) + 1  BY BeginPath DEF PathInv
  <2>2. CASE kind = "cpus"
    BY <2>1, <2>2, BeginPath DEF CpusDepthAfter
  <2>3. CASE kind # "cpus" /\ \E i \in 1..Len(path) : path[i].kind = "cpus"
    BY <2>1, <2>3, BeginPath DEF CpusDepthAfter, PlaceInv, PathInv
  <2>4. CASE kind # "cpus" /\ ~\E i \in 1..Len(path) : path[i].kind = "cpus"
    BY <2>1, <2>4, BeginPath DEF CpusDepthAfter, PlaceInv
  <2> QED  BY <2>2, <2>3, <2>4
<1> QED  BY <1>1, <1>2, <1>3 DEF PlaceInv

LEMMA PropertyKeepsPlace ==
  ASSUME TreeInv, NEW name, NEW what, NEW value, Property(name, what, value)
  PROVE  PlaceInv'
<1> USE DEF TreeInv, Property
<1>1. Len(path) \in 1..Len(path) /\ Len(path') = Len(path)
  BY PropertyPath, HereFacts
<1>2. /\ curr_depth' = Len(path')
      /\ inside_memory' = (path'[Len(path')].kind = "memory")
      /\ inside_plic_context' = (path'[Len(path')].kind = "plic")
  BY <1>1, PropertyPath, HereFacts DEF PlaceInv
<1>3. (\E i \in 1..Len(path') : path'[i].kind = "cpus")
        <=> \E i \in 1..Len(path) : path[i].kind = "cpus"
  BY <1>1, PropertyPath
<1> QED  BY <1>1, <1>2, <1>3 DEF PlaceInv

LEMMA EndKeepsPlace ==
  ASSUME TreeInv, EndNode  PROVE PlaceInv'
<1> USE DEF TreeInv
<1>1. Len(path) \in Nat /\ Len(path) > 0 /\ Len(path') = Len(path) - 1  BY EndPath DEF PathInv
<1>2. curr_depth' = Len(path')  BY <1>1 DEF EndNode, PlaceInv
<1>3. Len(path') > 0 => path'[Len(path')].leaf = FALSE
  <2> SUFFICES ASSUME Len(path') > 0  PROVE path'[Len(path')].leaf = FALSE
    OBVIOUS
  <2>1. Len(path) - 1 \in 1..Len(path) - 1 /\ Len(path) - 1 \in 1..Len(path)  BY <1>1
  <2>2. path'[Len(path')] = path[Len(path) - 1]  BY <1>1, <2>1, EndPath
  <2>3. path[Len(path) - 1].leaf \in BOOLEAN  BY <2>1, NodeTypes
  <2> QED  BY <1>1, <2>1, <2>2, <2>3 DEF PathInv
<1>4. cpus_depth' = IF \E i \in 1..Len(path') : path'[i].kind = "cpus" THEN Len(path') - 1 ELSE 0
  <2>1. cpus_depth' = CpusDepthLeft  BY DEF EndNode
  <2>2. CASE \E i \in 1..Len(path') : path'[i].kind = "cpus"
    <3>1. PICK i \in 1..Len(path') : path'[i].kind = "cpus"  BY <2>2
    <3>2. i \in 1..Len(path) /\ path[i].kind = "cpus"  BY <1>1, <3>1, EndPath
    <3>3. i = 2  BY <3>2 DEF PathInv
    <3> QED  BY <1>1, <2>1, <2>2, <3>2, <3>3 DEF CpusDepthLeft, PlaceInv
  <2>3. CASE ~\E i \in 1..Len(path') : path'[i].kind = "cpus"
    <3>1. CASE \E i \in 1..Len(path) : path[i].kind = "cpus"
      <4>1. PICK i \in 1..Len(path) : path[i].kind = "cpus"  BY <3>1
      <4>2. i = 2 /\ ~(i \in 1..Len(path'))  BY <1>1, <2>3, <4>1, EndPath DEF PathInv
      <4>3. Len(path) = 2  BY <1>1, <4>1, <4>2
      <4> QED  BY <1>1, <2>1, <2>3, <3>1, <4>3 DEF CpusDepthLeft, PlaceInv
    <3>2. CASE ~\E i \in 1..Len(path) : path[i].kind = "cpus"
      BY <2>1, <2>3, <3>2 DEF CpusDepthLeft, PlaceInv
    <3> QED  BY <3>1, <3>2
  <2> QED  BY <2>2, <2>3
<1> QED  BY <1>2, <1>3, <1>4 DEF PlaceInv
-----------------------------------------------------------------------------
LEMMA FactTypes ==
  ASSUME TreeTypeOK
  PROVE  found \in [Facts -> Nat] /\ truth \in [Facts -> Nat]
<1>1. DOMAIN Nothing = Facts  BY DEF Nothing, Facts
<1> QED  BY <1>1 DEF TreeTypeOK, TypeOK

LEMMA BeginKeepsFacts ==
  ASSUME TreeAssumption, TreeInv, NEW kind \in Kind, BeginNode(kind)
  PROVE  BootFactsExact' /\ HartsExact' /\ DevicesExact'
<1> USE DEF TreeInv
<1>1. found \in [Facts -> Nat] /\ truth \in [Facts -> Nat]  BY FactTypes
<1>0. /\ path' \in Seq(Node) /\ Len(path') = Len(path) + 1
      /\ path'[Len(path')] = [kind |-> kind, id |-> nodes + 1, props |-> {}, leaf |-> TRUE]
      /\ \A i \in 1..Len(path) : path'[i].kind = path[i].kind
  BY BeginPath DEF BeginNode
<1> DEFINE one == IF kind = "cpu" THEN 1 ELSE 0
<1>2. kind = "cpu" => cpus_depth > 0
  <2> SUFFICES ASSUME kind = "cpu"  PROVE cpus_depth > 0
    OBVIOUS
  <2>1. Len(path) > 0 /\ Here.kind = "cpus"  BY DEF BeginNode, MayBegin, Depth, PathInv
  <2>2. path[Len(path)].kind = "cpus" /\ Len(path) \in 1..Len(path)  BY <2>1, HereFacts
  <2>3. Len(path) = 2  BY <2>2 DEF PathInv
  <2> QED  BY <2>2, <2>3 DEF PlaceInv
<1>3. truth' = [truth EXCEPT !["harts"] = @ + one] /\ found' = [found EXCEPT !["harts"] = @ + one]
  BY <1>2 DEF BeginNode
<1>4. \A f \in Facts \ {"harts"} : truth'[f] = truth[f] /\ found'[f] = found[f]
  BY <1>1, <1>3
<1>5. truth'["harts"] = truth["harts"] + one /\ found'["harts"] = found["harts"] + one
  BY <1>1, <1>3 DEF Facts
<1>6. ASSUME NEW d \in Device
      PROVE  found'[d] = IF d \in kinds' /\ \A i \in DOMAIN path' : path'[i].kind # d
                         THEN truth'[d] ELSE 0
  <2>1. d \in Facts \ {"harts"}  BY DEF Device, Facts
  <2>2. DOMAIN path' = 1..Len(path) + 1 /\ DOMAIN path = 1..Len(path) /\ Len(path) \in Nat
    BY <1>0 DEF PathInv
  <2>3. path'[Len(path) + 1].kind = kind /\ \A i \in 1..Len(path) : path'[i].kind = path[i].kind
    BY <1>0
  <2>4. kinds' = kinds \cup {kind}  BY DEF BeginNode
  <2>5. CASE kind = d
    <3>1. d \notin kinds  BY <2>5 DEF BeginNode, MayBegin
    <3> QED  BY <1>4, <2>1, <2>2, <2>3, <2>5, <3>1 DEF DevicesExact
  <2>6. CASE kind # d
    <3>1. (\A i \in DOMAIN path' : path'[i].kind # d) <=> \A i \in DOMAIN path : path[i].kind # d
      BY <2>2, <2>3, <2>6
    <3> QED  BY <1>4, <2>1, <2>4, <2>6, <3>1 DEF DevicesExact
  <2> QED  BY <2>5, <2>6
<1>7. DevicesExact'  BY <1>6 DEF DevicesExact
<1>8. BootFactsExact'
  <2>1. panic' = panic  BY DEF BeginNode
  <2> QED  BY <1>4, <2>1 DEF BootFactsExact, Facts
<1>9. HartsExact'  BY <1>5 DEF HartsExact
<1> QED  BY <1>7, <1>8, <1>9

LEMMA BeginKeepsDevice ==
  ASSUME TreeAssumption, TreeInv, NEW kind \in Kind, BeginNode(kind)
  PROVE  DeviceInv'
<1> USE DEF TreeInv
<1>0. /\ path' \in Seq(Node) /\ Len(path') = Len(path) + 1
      /\ path'[Len(path')] = [kind |-> kind, id |-> nodes + 1, props |-> {}, leaf |-> TRUE]
      /\ \A i \in 1..Len(path) :
           path'[i].kind = path[i].kind /\ path'[i].id = path[i].id /\ path'[i].props = path[i].props
  BY BeginPath DEF BeginNode
<1>1. \A d \in Device : truth'[d] = truth[d]
  <2>1. truth \in [Facts -> Nat]  BY FactTypes
  <2>2. truth' = [truth EXCEPT !["harts"] = @ + IF kind = "cpu" THEN 1 ELSE 0]
    BY DEF BeginNode
  <2> QED  BY <2>1, <2>2 DEF Device, Facts
<1>2. UNCHANGED <<active_device, dev_depth, base>>  BY DEF BeginNode
<1>3. Len(path) \in Nat /\ Len(path') = Len(path) + 1  BY <1>0 DEF PathInv
<1>4. active_device' # "none" => dev_depth' \in 1..Len(path') /\ path'[dev_depth'].kind = active_device'
  BY <1>0, <1>2, <1>3 DEF DeviceInv
<1>5. ASSUME NEW i \in 1..Len(path'), path'[i].kind \in Device
      PROVE  /\ "compatible" \in path'[i].props => active_device' = path'[i].kind /\ dev_depth' = i
             /\ "reg" \in path'[i].props => base' = path'[i].id /\ truth'[path'[i].kind] = path'[i].id
  <2>1. CASE i = Len(path')  BY <1>0, <2>1
  <2>2. CASE i # Len(path')
    <3>1. i \in 1..Len(path)  BY <1>3, <2>2
    <3>2. path'[i].kind = path[i].kind /\ path'[i].id = path[i].id /\ path'[i].props = path[i].props
      BY <1>0, <3>1
    <3> QED  BY <1>1, <1>2, <1>5, <3>1, <3>2 DEF DeviceInv
  <2> QED  BY <2>1, <2>2
<1> QED  BY <1>4, <1>5 DEF DeviceInv

\* While a node can have properties, the flags are those of that node, and no
\* node around it is a device.
LEMMA PropertyFacts ==
  ASSUME TreeInv, NEW name, NEW what, NEW value, Property(name, what, value)
  PROVE  /\ Len(path) \in 1..Len(path) /\ Here = path[Len(path)] /\ Here.kind \in kinds
         /\ name \in Has(Here.kind) /\ name \notin Here.props
         /\ inside_memory = (Here.kind = "memory")
         /\ inside_plic_context = (Here.kind = "plic")
         /\ Here.kind = "cpus" => cpus_depth > 0
         /\ \A i \in 1..Len(path) : path[i].kind \in Device => i = Len(path)
         /\ DOMAIN path = 1..Len(path) /\ DOMAIN path' = 1..Len(path)
         /\ \A i \in 1..Len(path) : path'[i].kind = path[i].kind /\ path'[i].id = path[i].id
         /\ \A i \in 1..Len(path) :
              path'[i].props = IF i = Len(path) THEN path[i].props \cup {name} ELSE path[i].props
<1> USE DEF TreeInv
<1>1. Len(path) \in 1..Len(path) /\ Here = path[Len(path)]
  BY HereFacts, PropertyPath
<1>2. Here.leaf /\ name \in Has(Here.kind) \ Here.props  BY PropertyPath
<1>3. Here.kind # "plain"  BY <1>2 DEF Has, Needs
<1>4. \A i \in 1..Len(path) : path[i].kind \in Device => i = Len(path)
  BY <1>1, <1>3 DEF PathInv
<1>5. Here.kind = "cpus" => cpus_depth > 0
  <2> SUFFICES ASSUME Here.kind = "cpus"  PROVE cpus_depth > 0
    OBVIOUS
  <2>1. Len(path) = 2  BY <1>1 DEF PathInv
  <2> QED  BY <1>1, <2>1 DEF PlaceInv
<1>6. inside_memory = (Here.kind = "memory") /\ inside_plic_context = (Here.kind = "plic")
  BY <1>1, <1>2 DEF PlaceInv
<1>7. DOMAIN path = 1..Len(path) /\ DOMAIN path' = 1..Len(path)
  BY PropertyPath DEF PathInv
<1>8. Here.kind \in kinds  BY <1>1 DEF PathInv
<1>9. \A i \in 1..Len(path) :
        /\ path'[i].kind = path[i].kind /\ path'[i].id = path[i].id
        /\ path'[i].props = IF i = Len(path) THEN path[i].props \cup {name} ELSE path[i].props
  BY PropertyPath
<1> QED  BY <1>1, <1>2, <1>4, <1>5, <1>6, <1>7, <1>8, <1>9

\* The tree says something new of what only.
LEMMA PropertyTruth ==
  ASSUME TreeInv, NEW name, NEW what, NEW value \in Nat, Property(name, what, value)
  PROVE  /\ truth' \in [Facts -> Nat]
         /\ \A f \in Facts : truth'[f] = IF f = what THEN value ELSE truth[f]
<1>1. truth \in [Facts -> Nat]  BY FactTypes DEF TreeInv
<1>2. truth' = IF what \in Facts THEN [truth EXCEPT ![what] = value] ELSE truth
  BY <1>1 DEF Property
<1> QED  BY <1>1, <1>2

\* The devices that have ended are the same after a property; the one that is
\* open, if any, is the node the property is in.
LEMMA PropertyDevices ==
  ASSUME TreeInv, NEW name, NEW what, NEW value \in Nat, Property(name, what, value),
         what \in Device => what = Here.kind,
         \A d \in Device : found'[d] = found[d]
  PROVE  DevicesExact'
<1>1. kinds' = kinds  BY DEF Property
<1>2. ASSUME NEW d \in Device
      PROVE  found'[d] = IF d \in kinds' /\ \A i \in DOMAIN path' : path'[i].kind # d
                         THEN truth'[d] ELSE 0
  <2>1. (\A i \in DOMAIN path' : path'[i].kind # d) <=> \A i \in DOMAIN path : path[i].kind # d
    BY PropertyFacts
  <2>2. d \in Facts  BY DEF Device, Facts
  <2>3. CASE what = d
    <3>1. ~\A i \in DOMAIN path : path[i].kind # d
      BY <2>3, PropertyFacts
    <3> QED  BY <1>1, <2>1, <3>1 DEF DevicesExact, TreeInv
  <2>4. CASE what # d
    <3>1. truth'[d] = truth[d]  BY <2>2, <2>4, PropertyTruth
    <3> QED  BY <1>1, <2>1, <3>1 DEF DevicesExact, TreeInv
  <2> QED  BY <2>3, <2>4
<1> QED  BY <1>2 DEF DevicesExact

LEMMA RegKeeps ==
  ASSUME TreeAssumption, TreeInv, Reg
  PROVE  BootFactsExact' /\ HartsExact' /\ DevicesExact' /\ DeviceInv'
<1> DEFINE what == IF Here.kind = "memory" THEN "ram" ELSE Here.kind
<1>1. Property("reg", what, Here.id)  BY DEF Reg
<1> HIDE DEF what
<1>2. Here.id \in Nat /\ Here.kind \in {"memory", "plic", "clint", "serial", "cpu", "other"}
  <2>1. Here = path[Len(path)] /\ Len(path) \in 1..Len(path) /\ "reg" \in Has(Here.kind)
    BY <1>1, PropertyFacts
  <2>2. Here.id \in Nat /\ Here.kind \in Kind  BY <2>1, NodeTypes DEF TreeInv
  <2> QED  BY <2>1, <2>2 DEF Has, Needs, Kind
<1>3. \A f \in Facts : truth'[f] = IF f = what THEN Here.id ELSE truth[f]
  BY <1>1, <1>2, PropertyTruth
<1>4. found \in [Facts -> Nat]  BY FactTypes DEF TreeInv
<1>5. found' = [found EXCEPT !["ram"] = IF inside_memory THEN Here.id ELSE @]
  BY DEF Reg
<1>6. /\ found'["ram"] = IF Here.kind = "memory" THEN Here.id ELSE found["ram"]
      /\ \A f \in Facts \ {"ram"} : found'[f] = found[f]
  <2>1. inside_memory = (Here.kind = "memory")  BY <1>1, PropertyFacts
  <2> QED  BY <1>4, <1>5, <2>1 DEF Facts
<1>7. what \notin {"timebase", "harts", "context"} /\ (what = "ram" <=> Here.kind = "memory")
  BY <1>2 DEF what
<1>8. BootFactsExact'
  <2>1. panic' = panic  BY DEF Reg
  <2> QED  BY <1>3, <1>6, <1>7, <2>1 DEF BootFactsExact, TreeInv, Facts
<1>9. HartsExact'  BY <1>3, <1>6, <1>7 DEF HartsExact, TreeInv, Facts
<1>10. DevicesExact'
  <2>1. what \in Device => what = Here.kind  BY <1>2 DEF what, Device
  <2>2. \A d \in Device : found'[d] = found[d]  BY <1>6 DEF Device, Facts
  <2> QED  BY <1>1, <1>2, <2>1, <2>2, PropertyDevices
<1>11. DeviceInv'
  <2>1. base' = Here.id /\ UNCHANGED <<active_device, dev_depth>>  BY DEF Reg
  <2>2. Len(path') = Len(path)  BY <1>1, PropertyPath DEF TreeInv
  <2>3. /\ \A i \in 1..Len(path) : path'[i].kind = path[i].kind /\ path'[i].id = path[i].id
        /\ \A i \in 1..Len(path) :
             path'[i].props = IF i = Len(path) THEN path[i].props \cup {"reg"} ELSE path[i].props
        /\ \A i \in 1..Len(path) : path[i].kind \in Device => i = Len(path)
        /\ Here = path[Len(path)]
    BY <1>1, PropertyFacts
  <2>4. Here.kind \in Device => truth'[Here.kind] = Here.id
    BY <1>3 DEF what, Device, Facts
  <2>5. active_device' # "none" => dev_depth' \in 1..Len(path') /\ path'[dev_depth'].kind = active_device'
    BY <2>1, <2>2, <2>3 DEF DeviceInv, TreeInv
  <2>6. ASSUME NEW i \in 1..Len(path'), path'[i].kind \in Device
      PROVE  /\ "compatible" \in path'[i].props => active_device' = path'[i].kind /\ dev_depth' = i
             /\ "reg" \in path'[i].props => base' = path'[i].id /\ truth'[path'[i].kind] = path'[i].id
    <3>1. i = Len(path) /\ i \in 1..Len(path) /\ path[i] = Here /\ path'[i].kind = Here.kind /\ path'[i].id = Here.id
      BY <2>2, <2>3, <2>6
    <3>2. "compatible" \in path'[i].props => "compatible" \in path[i].props
      <4>1. path'[i].props = path[i].props \cup {"reg"}  BY <2>3, <3>1
      <4> QED  BY <4>1
    <3> QED  BY <2>1, <2>4, <2>6, <3>1, <3>2 DEF DeviceInv, TreeInv
  <2> QED  BY <2>5, <2>6 DEF DeviceInv
<1> QED  BY <1>8, <1>9, <1>10, <1>11

LEMMA CompatibleKeeps ==
  ASSUME TreeAssumption, TreeInv, Compatible
  PROVE  BootFactsExact' /\ HartsExact' /\ DevicesExact' /\ DeviceInv'
<1>1. Property("compatible", "nothing", 0)  BY DEF Compatible
<1>2. \A f \in Facts : truth'[f] = truth[f]
  <2>1. \A f \in Facts : truth'[f] = IF f = "nothing" THEN 0 ELSE truth[f]
    BY <1>1, PropertyTruth
  <2> QED  BY <2>1 DEF Facts
<1>3. UNCHANGED <<found, panic, base>>  BY DEF Compatible
<1>4. BootFactsExact' /\ HartsExact'
  BY <1>2, <1>3 DEF BootFactsExact, HartsExact, TreeInv, Facts
<1>5. DevicesExact'  BY <1>1, <1>3, PropertyDevices DEF Device
<1>6. DeviceInv'
  <2>1. active_device' = Here.kind /\ dev_depth' = Len(path)
    BY DEF Compatible, TreeInv, PlaceInv
  <2>2. Len(path') = Len(path)  BY <1>1, PropertyPath DEF TreeInv
  <2>3. /\ \A i \in 1..Len(path) : path'[i].kind = path[i].kind /\ path'[i].id = path[i].id
        /\ \A i \in 1..Len(path) :
             path'[i].props = IF i = Len(path) THEN path[i].props \cup {"compatible"} ELSE path[i].props
        /\ \A i \in 1..Len(path) : path[i].kind \in Device => i = Len(path)
        /\ Here = path[Len(path)] /\ Len(path) \in 1..Len(path)
    BY <1>1, PropertyFacts
  <2>4. \A d \in Device : truth'[d] = truth[d]  BY <1>2 DEF Device, Facts
  <2>5. dev_depth' \in 1..Len(path') /\ path'[dev_depth'].kind = active_device'
    BY <2>1, <2>2, <2>3
  <2>6. ASSUME NEW i \in 1..Len(path'), path'[i].kind \in Device
      PROVE  /\ "compatible" \in path'[i].props => active_device' = path'[i].kind /\ dev_depth' = i
             /\ "reg" \in path'[i].props => base' = path'[i].id /\ truth'[path'[i].kind] = path'[i].id
    <3>1. i = Len(path) /\ i \in 1..Len(path) /\ path[i] = Here /\ path'[i].kind = Here.kind /\ path'[i].id = Here.id
      BY <2>2, <2>3, <2>6
    <3>2. "reg" \in path'[i].props => "reg" \in path[i].props
      <4>1. path'[i].props = path[i].props \cup {"compatible"}  BY <2>3, <3>1
      <4> QED  BY <4>1
    <3> QED  BY <1>3, <2>1, <2>4, <2>6, <3>1, <3>2 DEF DeviceInv, TreeInv
  <2> QED  BY <2>5, <2>6 DEF DeviceInv
<1> QED  BY <1>4, <1>5, <1>6

\* A property that is neither a reg nor a name leaves the devices alone.
LEMMA OtherKeepsDevice ==
  ASSUME TreeInv, NEW name, NEW what, NEW value \in Nat, Property(name, what, value),
         name \notin {"reg", "compatible"}, what \notin Device,
         UNCHANGED <<active_device, dev_depth, base>>
  PROVE  DeviceInv'
<1>1. Len(path') = Len(path)  BY PropertyPath DEF TreeInv
<1>2. \A i \in 1..Len(path) :
        /\ path'[i].kind = path[i].kind /\ path'[i].id = path[i].id
        /\ "reg" \in path'[i].props <=> "reg" \in path[i].props
        /\ "compatible" \in path'[i].props <=> "compatible" \in path[i].props
  <2>1. \A i \in 1..Len(path) :
          /\ path'[i].kind = path[i].kind /\ path'[i].id = path[i].id
          /\ path'[i].props = IF i = Len(path) THEN path[i].props \cup {name} ELSE path[i].props
    BY PropertyFacts
  <2> QED  BY <2>1
<1>3. \A d \in Device : truth'[d] = truth[d]
  BY PropertyTruth DEF Device, Facts
<1> QED  BY <1>1, <1>2, <1>3 DEF DeviceInv, TreeInv

LEMMA TimebaseKeeps ==
  ASSUME TreeAssumption, TreeInv, TimebaseFrequency
  PROVE  BootFactsExact' /\ HartsExact' /\ DevicesExact' /\ DeviceInv'
<1>1. Property("timebase-frequency", "timebase", Here.id)  BY DEF TimebaseFrequency
<1>2. Here.id \in Nat /\ cpus_depth > 0
  <2>1. /\ Here = path[Len(path)] /\ Len(path) \in 1..Len(path)
        /\ "timebase-frequency" \in Has(Here.kind)
        /\ Here.kind = "cpus" => cpus_depth > 0
    BY <1>1, PropertyFacts
  <2>2. Here.id \in Nat /\ Here.kind \in Kind  BY <2>1, NodeTypes DEF TreeInv
  <2> QED  BY <2>1, <2>2 DEF Has, Needs, Kind
<1>3. \A f \in Facts : truth'[f] = IF f = "timebase" THEN Here.id ELSE truth[f]
  BY <1>1, <1>2, PropertyTruth
<1>4. found \in [Facts -> Nat]  BY FactTypes DEF TreeInv
<1>5. found' = [found EXCEPT !["timebase"] = Here.id]
  BY <1>2 DEF TimebaseFrequency
<1>6. \A f \in Facts : found'[f] = IF f = "timebase" THEN Here.id ELSE found[f]
  BY <1>4, <1>5
<1>7. UNCHANGED <<panic, active_device, dev_depth, base>>  BY DEF TimebaseFrequency
<1>8. BootFactsExact' /\ HartsExact'
  BY <1>3, <1>6, <1>7 DEF BootFactsExact, HartsExact, TreeInv, Facts
<1>9. DevicesExact'
  <2>1. \A d \in Device : found'[d] = found[d]  BY <1>6 DEF Device, Facts
  <2> QED  BY <1>1, <1>2, <2>1, PropertyDevices DEF Device
<1>10. DeviceInv'  BY <1>1, <1>2, <1>7, OtherKeepsDevice DEF Device
<1> QED  BY <1>8, <1>9, <1>10

\* The index the code returns is the number of contexts before the first one
\* of the supervisor.
LEMMA FirstExternalFacts ==
  ASSUME NEW r \in Seq(Nat)
  PROVE  /\ FirstExternal(r) \in Nat
         /\ Cardinality({i \in DOMAIN r : \A j \in 1..i : r[j] # External}) = FirstExternal(r)
<1> DEFINE S == {i \in 0..Len(r) : i = Len(r) \/ r[i + 1] = External}
           R == {ss \in Nat \X Nat : ss[1] < ss[2]}
           f == FirstExternal(r)
<1>1. \E i \in S : \A j \in S : i <= j
  <2>1. S \subseteq Nat /\ Len(r) \in S  OBVIOUS
  <2>2. IsWellFoundedOn(R, Nat)  BY NatLessThanWellFounded DEF OpToRel
  <2> HIDE DEF R, S
  <2>3. PICK x \in S : \A y \in S : <<y, x>> \notin R
    BY <2>1, <2>2, WFMin
  <2>4. ASSUME NEW y \in S  PROVE x <= y
    <3>1. x \in Nat /\ y \in Nat /\ <<y, x>> \in Nat \X Nat  BY <2>1
    <3>2. <<y, x>>[1] = y /\ <<y, x>>[2] = x  OBVIOUS
    <3>3. y < x => <<y, x>> \in R  BY <3>1, <3>2 DEF R
    <3> QED  BY <2>3, <3>1, <3>3
  <2> QED  BY <2>4
<1>2. PICK x \in S : \A j \in S : x <= j  BY <1>1
<1>3. \A j \in 0..x - 1 : r[j + 1] # External
  <2> SUFFICES ASSUME NEW j \in 0..x - 1, r[j + 1] = External  PROVE FALSE
    OBVIOUS
  <2>1. j \in S /\ x \in 0..Len(r)  OBVIOUS
  <2> QED  BY <1>2, <2>1
<1>4. /\ f \in 0..Len(r) /\ (f = Len(r) \/ r[f + 1] = External)
      /\ \A j \in 0..f - 1 : r[j + 1] # External
  <2>1. x \in 0..Len(r) /\ (x = Len(r) \/ r[x + 1] = External)  OBVIOUS
  <2> QED  BY <1>3, <2>1 DEF FirstExternal
<1> HIDE DEF f, S, R
<1>8. Len(r) \in Nat /\ f \in Nat /\ f <= Len(r)  BY <1>4
<1>5. {i \in DOMAIN r : \A j \in 1..i : r[j] # External} = 1..f
  <2>1. DOMAIN r = 1..Len(r) /\ Len(r) \in Nat  OBVIOUS
  <2>2. ASSUME NEW i \in 1..f, NEW j \in 1..i  PROVE r[j] # External
    <3>1. j - 1 \in 0..f - 1 /\ (j - 1) + 1 = j  BY <1>8, <2>2
    <3> QED  BY <1>4, <3>1
  <2>3. ASSUME NEW i \in 1..Len(r), \A j \in 1..i : r[j] # External  PROVE i \in 1..f
    <3>1. CASE f = Len(r)  BY <2>3, <3>1
    <3>2. CASE f # Len(r)
      <4>1. ~(f + 1 \in 1..i)  BY <1>4, <2>3, <3>2
      <4> QED  BY <1>8, <2>3, <4>1
    <3> QED  BY <3>1, <3>2
  <2>4. 1..f \subseteq 1..Len(r)  BY <1>8
  <2> QED  BY <2>1, <2>2, <2>3, <2>4
<1>6. Cardinality(1..f) = f
  BY <1>8, FS_Interval
<1>7. Cardinality({i \in DOMAIN r : \A j \in 1..i : r[j] # External}) = f  BY <1>5, <1>6
<1> QED  BY <1>7, <1>8 DEF f

LEMMA InterruptsKeeps ==
  ASSUME TreeAssumption, TreeInv, NEW r \in Routes, InterruptsExtended(r)
  PROVE  BootFactsExact' /\ HartsExact' /\ DevicesExact' /\ DeviceInv'
<1> DEFINE what == IF Here.kind = "plic" THEN "context" ELSE "nothing"
           n == Cardinality({i \in DOMAIN r : \A j \in 1..i : r[j] # External})
<1>1. Property("interrupts-extended", what, n)  BY DEF InterruptsExtended
<1>2. n \in Nat /\ n = FirstExternal(r)
  BY FirstExternalFacts DEF TreeAssumption
<1> HIDE DEF n
<1>3. inside_plic_context = (Here.kind = "plic")  BY <1>1, PropertyFacts
<1>4. \A f \in Facts : truth'[f] = IF f = what THEN n ELSE truth[f]
  BY <1>1, <1>2, PropertyTruth
<1>5. found \in [Facts -> Nat]  BY FactTypes DEF TreeInv
<1>6. /\ \A f \in Facts \ {"context"} : found'[f] = found[f] /\ truth'[f] = truth[f]
      /\ panic' = 0 => found'["context"] = truth'["context"]
  <2>1. found' = [found EXCEPT !["context"] =
                    IF inside_plic_context /\ FirstExternal(r) < Len(r) THEN FirstExternal(r) ELSE @]
    BY DEF InterruptsExtended
  <2>2. \A f \in Facts \ {"context"} : found'[f] = found[f] /\ truth'[f] = truth[f]
    BY <1>4, <1>5, <2>1 DEF Facts
  <2>3. CASE inside_plic_context
    <3>1. panic' = 0 => FirstExternal(r) # Len(r)  BY <2>3 DEF InterruptsExtended
    <3>2. FirstExternal(r) # Len(r) => FirstExternal(r) < Len(r)
      <4>1. r \in Seq(Nat)  BY DEF TreeAssumption
      <4>2. FirstExternal(r) <= Len(r) /\ FirstExternal(r) \in Nat /\ Len(r) \in Nat
        <5>1. {i \in DOMAIN r : \A j \in 1..i : r[j] # External} \subseteq 1..Len(r) /\ Len(r) \in Nat
          BY <4>1
        <5>2. Cardinality({i \in DOMAIN r : \A j \in 1..i : r[j] # External}) <= Cardinality(1..Len(r))
          BY <5>1, FS_Interval, FS_Subset
        <5>3. Cardinality(1..Len(r)) = Len(r)  BY <5>1, FS_Interval
        <5> QED  BY <4>1, <5>1, <5>2, <5>3, FirstExternalFacts
      <4> QED  BY <4>2
    <3>3. what = "context" /\ "context" \in Facts  BY <1>3, <2>3 DEF Facts
    <3> QED  BY <1>2, <1>4, <1>5, <2>1, <2>2, <2>3, <3>1, <3>2, <3>3
  <2>4. CASE ~inside_plic_context
    <3>1. what # "context" /\ "context" \in Facts  BY <1>3, <2>4 DEF Facts
    <3>2. found'["context"] = found["context"]  BY <1>5, <2>1, <2>4, <3>1
    <3>3. panic = 0 /\ found["context"] = truth["context"]
      BY DEF TreeInv, BootFactsExact, InterruptsExtended, Property
    <3> QED  BY <1>4, <2>2, <3>1, <3>2, <3>3
  <2> QED  BY <2>3, <2>4
<1>7. BootFactsExact' /\ HartsExact'
  BY <1>6 DEF BootFactsExact, HartsExact, TreeInv, Facts
<1>8. DevicesExact'
  <2>1. \A d \in Device : found'[d] = found[d]  BY <1>6 DEF Device, Facts
  <2> QED  BY <1>1, <1>2, <2>1, PropertyDevices DEF Device
<1>9. DeviceInv'
  <2>1. UNCHANGED <<active_device, dev_depth, base>>  BY DEF InterruptsExtended
  <2> QED  BY <1>1, <1>2, <2>1, OtherKeepsDevice DEF Device
<1> QED  BY <1>7, <1>8, <1>9
-----------------------------------------------------------------------------
\* The node that ends is the open device, whose reg is in base, or none.
LEMMA EndKeeps ==
  ASSUME TreeAssumption, TreeInv, EndNode
  PROVE  BootFactsExact' /\ HartsExact' /\ DevicesExact' /\ DeviceInv'
<1> DEFINE n == Len(path)
<1>0. /\ n \in Nat /\ n > 0 /\ n \in 1..n /\ Here = path[n] /\ Here \in Node
      /\ Needs(Here.kind) \subseteq Here.props
      /\ Len(path') = n - 1 /\ \A i \in 1..n - 1 : path'[i] = path[i]
      /\ DOMAIN path = 1..n /\ DOMAIN path' = 1..n - 1
  BY EndPath, HereFacts DEF TreeInv, PathInv
<1>1. UNCHANGED <<truth, kinds, panic>> /\ curr_depth = n
  BY DEF EndNode, TreeInv, PlaceInv
<1>2. found \in [Facts -> Nat]  BY FactTypes DEF TreeInv
<1>3. Here.kind \in Device <=> active_device # "none" /\ dev_depth = n
  <2>1. ASSUME Here.kind \in Device  PROVE active_device # "none" /\ dev_depth = n
    <3>1. "compatible" \in Here.props  BY <1>0, <2>1 DEF Needs, Device
    <3> QED  BY <1>0, <2>1, <3>1 DEF TreeInv, DeviceInv, Device
  <2>2. ASSUME active_device # "none", dev_depth = n  PROVE Here.kind \in Device
    BY <1>0, <2>2 DEF TreeInv, DeviceInv, TreeTypeOK, TypeOK
  <2> QED  BY <2>1, <2>2
<1>4. CASE Here.kind \in Device
  <2>1. active_device = Here.kind /\ base = Here.id /\ truth[Here.kind] = Here.id
    <3>1. "compatible" \in Here.props /\ "reg" \in Here.props  BY <1>0, <1>4 DEF Needs, Device
    <3> QED  BY <1>0, <1>4, <3>1 DEF TreeInv, DeviceInv
  <2>2. /\ found' = [found EXCEPT ![Here.kind] = Here.id]
        /\ active_device' = "none" /\ base' = 0 /\ dev_depth' = 0
    BY <1>1, <1>3, <1>4, <2>1 DEF EndNode, DeviceEnds
  <2>3. \A f \in Facts : found'[f] = IF f = Here.kind THEN Here.id ELSE found[f]
    BY <1>2, <2>2
  <2>4. \A i \in 1..n - 1 : path[i].kind \notin Device
    <3> SUFFICES ASSUME NEW i \in 1..n - 1, path[i].kind \in Device  PROVE FALSE
      OBVIOUS
    <3>1. i \in 1..n /\ n > i  BY <1>0
    <3>2. path[n].kind = "plain"  BY <1>0, <3>1 DEF TreeInv, PathInv
    <3> QED  BY <1>0, <1>4, <3>2 DEF Device
  <2>5. BootFactsExact' /\ HartsExact'
    BY <1>1, <1>4, <2>3 DEF BootFactsExact, HartsExact, TreeInv, Facts, Device
  <2>6. ASSUME NEW d \in Device
        PROVE  found'[d] = IF d \in kinds' /\ \A i \in DOMAIN path' : path'[i].kind # d
                           THEN truth'[d] ELSE 0
    <3>1. d \in Facts  BY DEF Device, Facts
    <3>2. \A i \in DOMAIN path' : path'[i].kind # d
      BY <1>0, <2>4
    <3>3. CASE d = Here.kind
      <4>1. d \in kinds  BY <1>0, <3>3 DEF TreeInv, PathInv
      <4> QED  BY <1>1, <2>1, <2>3, <3>1, <3>2, <3>3, <4>1
    <3>4. CASE d # Here.kind
      <4>1. \A i \in DOMAIN path : path[i].kind # d
        BY <1>0, <2>4, <3>4
      <4> QED  BY <1>1, <2>3, <3>1, <3>2, <3>4, <4>1 DEF TreeInv, DevicesExact
    <3> QED  BY <3>3, <3>4
  <2>7. DevicesExact'  BY <2>6 DEF DevicesExact
  <2>8. DeviceInv'
    <3>1. \A i \in 1..Len(path') : path'[i].kind \notin Device  BY <1>0, <2>4
    <3> QED  BY <2>2, <3>1 DEF DeviceInv
  <2> QED  BY <2>5, <2>7, <2>8
<1>5. CASE Here.kind \notin Device
  <2>1. UNCHANGED <<found, active_device, base, dev_depth>>
    BY <1>1, <1>3, <1>5 DEF EndNode, DeviceEnds
  <2>2. BootFactsExact' /\ HartsExact'
    BY <1>1, <2>1 DEF BootFactsExact, HartsExact, TreeInv
  <2>3. ASSUME NEW d \in Device
        PROVE  found'[d] = IF d \in kinds' /\ \A i \in DOMAIN path' : path'[i].kind # d
                           THEN truth'[d] ELSE 0
    <3>1. (\A i \in DOMAIN path' : path'[i].kind # d) <=> \A i \in DOMAIN path : path[i].kind # d
      <4>1. \A i \in DOMAIN path : i = n \/ i \in DOMAIN path'  BY <1>0
      <4>2. \A i \in DOMAIN path' : i \in DOMAIN path  BY <1>0
      <4> QED  BY <1>0, <1>5, <4>1, <4>2
    <3> QED  BY <1>1, <2>1, <3>1 DEF TreeInv, DevicesExact
  <2>4. DevicesExact'  BY <2>3 DEF DevicesExact
  <2>5. active_device # "none" => dev_depth \in 1..n - 1
    BY <1>0, <1>3, <1>5 DEF TreeInv, DeviceInv
  <2>6. \A i \in 1..n - 1 : i \in 1..n  BY <1>0
  <2>7. DeviceInv'
    BY <1>0, <1>1, <2>1, <2>5, <2>6 DEF TreeInv, DeviceInv
  <2> QED  BY <2>2, <2>4, <2>7
<1> QED  BY <1>4, <1>5

\* The bounds of the parsers' variables follow from the place they are at.
LEMMA PlaceTypes ==
  ASSUME TreeAssumption, PathInv', PlaceInv'
  PROVE  cpus_depth' \in 0..MaxDepth /\ curr_depth' \in 0..MaxDepth /\ Len(path') \in 0..MaxDepth
<1>1. Len(path') \in 0..MaxDepth  BY DEF PathInv, TreeAssumption
<1>2. CASE \E i \in 1..Len(path') : path'[i].kind = "cpus"
  BY <1>1, <1>2 DEF PlaceInv, TreeAssumption
<1>3. CASE ~\E i \in 1..Len(path') : path'[i].kind = "cpus"
  BY <1>1, <1>3 DEF PlaceInv, TreeAssumption
<1> QED  BY <1>1, <1>2, <1>3 DEF PlaceInv

LEMMA BeginKeepsTypes ==
  ASSUME TreeAssumption, TreeInv, NEW kind \in Kind, BeginNode(kind), PathInv', PlaceInv'
  PROVE  TreeTypeOK'
<1> DEFINE one == IF kind = "cpu" THEN 1 ELSE 0
           more == IF kind = "cpu" /\ cpus_depth > 0 THEN 1 ELSE 0
<1>1. found \in [Facts -> Nat] /\ truth \in [Facts -> Nat]  BY FactTypes DEF TreeInv
<1>2. truth' = [truth EXCEPT !["harts"] = @ + one] /\ found' = [found EXCEPT !["harts"] = @ + more]
  BY DEF BeginNode
<1>3. truth' \in [Facts -> Nat] /\ found' \in [Facts -> Nat]  BY <1>1, <1>2 DEF Facts
<1>4. Facts = DOMAIN Nothing  BY DEF Nothing, Facts
<1> QED
  BY <1>3, <1>4, PlaceTypes DEF TreeTypeOK, TypeOK, TreeInv, BeginNode, InsideMemory

\* A property in a node of the path
LEMMA PropertyKeepsTypes ==
  ASSUME TreeAssumption, TreeInv, NEW name, NEW what, NEW value \in Nat,
         Property(name, what, value), PathInv', PlaceInv',
         found' \in [Facts -> Nat], panic' \in {0, 117},
         active_device' \in Device \cup {"none"}, dev_depth' \in 0..MaxDepth, base' \in 0..MaxNodes
  PROVE  TreeTypeOK'
<1>1. Facts = DOMAIN Nothing  BY DEF Nothing, Facts
<1>2. UNCHANGED <<inside_memory, inside_plic_context>>  BY DEF Property
<1> QED
  BY <1>1, <1>2, PropertyTruth, PlaceTypes DEF TreeTypeOK, TypeOK, TreeInv

\* The node that has the property
LEMMA HereId ==
  ASSUME TreeAssumption, TreeInv, NEW name, NEW what, NEW value, Property(name, what, value)
  PROVE  Here.id \in 0..MaxNodes /\ Here.id \in Nat /\ Here.kind \in Kind /\ Len(path) \in 0..MaxDepth
<1>1. Here = path[Len(path)] /\ Len(path) \in 1..Len(path)  BY PropertyFacts
<1>2. Here.id \in Nat /\ Here.kind \in Kind  BY <1>1, NodeTypes DEF TreeInv
<1>3. Here.id <= nodes /\ nodes \in 0..MaxNodes /\ Len(path) <= MaxDepth
  BY <1>1 DEF TreeInv, PathInv
<1> QED  BY <1>1, <1>2, <1>3 DEF TreeAssumption

LEMMA BeginKeeps ==
  ASSUME TreeAssumption, TreeInv, NEW kind \in Kind, BeginNode(kind)  PROVE TreeInv'
<1>1. PathInv'  BY BeginKeepsPath DEF TreeInv
<1>2. PlaceInv'  BY BeginKeepsPlace
<1> QED  BY <1>1, <1>2, BeginKeepsTypes, BeginKeepsDevice, BeginKeepsFacts DEF TreeInv

LEMMA RegKeepsInv ==
  ASSUME TreeAssumption, TreeInv, Reg  PROVE TreeInv'
<1> DEFINE what == IF Here.kind = "memory" THEN "ram" ELSE Here.kind
<1>1. Property("reg", what, Here.id)  BY DEF Reg
<1> HIDE DEF what
<1>2. PathInv'  BY <1>1, PropertyKeepsPath DEF TreeInv
<1>3. PlaceInv'  BY <1>1, PropertyKeepsPlace
<1>4. Here.id \in 0..MaxNodes /\ Here.id \in Nat  BY <1>1, HereId
<1>5. found' \in [Facts -> Nat]
  <2>1. found' = [found EXCEPT !["ram"] = IF inside_memory THEN Here.id ELSE @]  BY DEF Reg
  <2> QED  BY <1>4, <2>1, FactTypes DEF TreeInv, Facts
<1>6. TreeTypeOK'
  <2>1. UNCHANGED <<active_device, dev_depth, panic>> /\ base' = Here.id  BY DEF Reg
  <2>2. /\ panic' \in {0, 117} /\ active_device' \in Device \cup {"none"}
        /\ dev_depth' \in 0..MaxDepth /\ base' \in 0..MaxNodes
    BY <1>4, <2>1 DEF TreeInv, TreeTypeOK, TypeOK
  <2> QED  BY <1>1, <1>2, <1>3, <1>4, <1>5, <2>2, PropertyKeepsTypes
<1> QED  BY <1>2, <1>3, <1>6, RegKeeps DEF TreeInv

LEMMA CompatibleKeepsInv ==
  ASSUME TreeAssumption, TreeInv, Compatible  PROVE TreeInv'
<1>1. Property("compatible", "nothing", 0)  BY DEF Compatible
<1>2. PathInv'  BY <1>1, PropertyKeepsPath DEF TreeInv
<1>3. PlaceInv'  BY <1>1, PropertyKeepsPlace
<1>4. TreeTypeOK'
  <2>1. UNCHANGED <<found, base, panic>> /\ active_device' = Here.kind /\ dev_depth' = Len(path)
    BY DEF Compatible, TreeInv, PlaceInv
  <2>2. Here.kind \in Device
    <3>1. "compatible" \in Has(Here.kind)  BY <1>1, PropertyFacts
    <3>2. Here.kind \in Kind  BY <1>1, HereId
    <3> QED  BY <3>1, <3>2 DEF Has, Needs, Kind, Device
  <2>3. Len(path) \in 0..MaxDepth  BY <1>1, HereId
  <2>4. /\ panic' \in {0, 117} /\ active_device' \in Device \cup {"none"}
        /\ dev_depth' \in 0..MaxDepth /\ base' \in 0..MaxNodes
    BY <2>1, <2>2, <2>3 DEF TreeInv, TreeTypeOK, TypeOK
  <2>5. found' \in [Facts -> Nat]  BY <2>1, FactTypes DEF TreeInv
  <2> QED  BY <1>1, <1>2, <1>3, <2>4, <2>5, PropertyKeepsTypes
<1> QED  BY <1>2, <1>3, <1>4, CompatibleKeeps DEF TreeInv

LEMMA TimebaseKeepsInv ==
  ASSUME TreeAssumption, TreeInv, TimebaseFrequency  PROVE TreeInv'
<1>1. Property("timebase-frequency", "timebase", Here.id)  BY DEF TimebaseFrequency
<1>2. PathInv'  BY <1>1, PropertyKeepsPath DEF TreeInv
<1>3. PlaceInv'  BY <1>1, PropertyKeepsPlace
<1>4. Here.id \in Nat  BY <1>1, HereId
<1>5. found' \in [Facts -> Nat]
  <2>1. found' = [found EXCEPT !["timebase"] = IF cpus_depth > 0 THEN Here.id ELSE @]
    BY DEF TimebaseFrequency
  <2> QED  BY <1>4, <2>1, FactTypes DEF TreeInv, Facts
<1>6. /\ panic' \in {0, 117} /\ active_device' \in Device \cup {"none"}
      /\ dev_depth' \in 0..MaxDepth /\ base' \in 0..MaxNodes
  BY DEF TimebaseFrequency, TreeInv, TreeTypeOK, TypeOK
<1>7. TreeTypeOK'  BY <1>1, <1>2, <1>3, <1>4, <1>5, <1>6, PropertyKeepsTypes
<1> QED  BY <1>2, <1>3, <1>7, TimebaseKeeps DEF TreeInv

LEMMA InterruptsKeepsInv ==
  ASSUME TreeAssumption, TreeInv, NEW r \in Routes, InterruptsExtended(r)  PROVE TreeInv'
<1> DEFINE what == IF Here.kind = "plic" THEN "context" ELSE "nothing"
           n == Cardinality({i \in DOMAIN r : \A j \in 1..i : r[j] # External})
<1>1. Property("interrupts-extended", what, n)  BY DEF InterruptsExtended
<1>2. n \in Nat /\ FirstExternal(r) \in Nat
  BY FirstExternalFacts DEF TreeAssumption
<1> HIDE DEF n, what
<1>3. PathInv'  BY <1>1, PropertyKeepsPath DEF TreeInv
<1>4. PlaceInv'  BY <1>1, PropertyKeepsPlace
<1>5. found' \in [Facts -> Nat]
  <2>1. found' = [found EXCEPT !["context"] =
                    IF inside_plic_context /\ FirstExternal(r) < Len(r) THEN FirstExternal(r) ELSE @]
    BY DEF InterruptsExtended
  <2> QED  BY <1>2, <2>1, FactTypes DEF TreeInv, Facts
<1>6. /\ panic' \in {0, 117} /\ active_device' \in Device \cup {"none"}
      /\ dev_depth' \in 0..MaxDepth /\ base' \in 0..MaxNodes
  BY DEF InterruptsExtended, TreeInv, TreeTypeOK, TypeOK
<1>7. TreeTypeOK'  BY <1>1, <1>2, <1>3, <1>4, <1>5, <1>6, PropertyKeepsTypes
<1> QED  BY <1>3, <1>4, <1>7, InterruptsKeeps DEF TreeInv

LEMMA EndKeepsInv ==
  ASSUME TreeAssumption, TreeInv, EndNode  PROVE TreeInv'
<1>1. PathInv'  BY EndKeepsPath DEF TreeInv
<1>2. PlaceInv'  BY EndKeepsPlace
<1>3. Facts = DOMAIN Nothing  BY DEF Nothing, Facts
<1>4. found' \in [Facts -> Nat]
  <2>1. found' = found \/ found' = [found EXCEPT ![active_device] = base]  BY DEF EndNode
  <2>2. base \in Nat  BY DEF TreeInv, TreeTypeOK, TypeOK, TreeAssumption
  <2> QED  BY <2>1, <2>2, FactTypes DEF TreeInv
<1>5. /\ active_device' \in Device \cup {"none"}
      /\ dev_depth' \in 0..MaxDepth /\ base' \in 0..MaxNodes
  BY DEF EndNode, TreeInv, TreeTypeOK, TypeOK, TreeAssumption
<1>6. UNCHANGED <<truth, inside_memory, inside_plic_context, panic>>  BY DEF EndNode
<1>7. TreeTypeOK'
  BY <1>1, <1>2, <1>3, <1>4, <1>5, <1>6, PlaceTypes DEF TreeInv, TreeTypeOK, TypeOK
<1> QED  BY <1>1, <1>2, <1>7, EndKeeps DEF TreeInv

LEMMA InitTreeInv == TreeAssumption /\ Init => TreeInv
<1> SUFFICES ASSUME TreeAssumption, Init  PROVE TreeInv
  OBVIOUS
<1> USE DEF Init
<1>1. Facts = DOMAIN Nothing /\ Nothing \in [Facts -> Nat] /\ \A f \in Facts : Nothing[f] = 0
  BY DEF Nothing, Facts
<1>2. TreeTypeOK
  <2>1. found \in [DOMAIN Nothing -> Nat] /\ truth \in [Facts -> Nat]  BY <1>1
  <2>2. 0 \in 0..MaxDepth /\ 0 \in 0..MaxNodes  BY DEF TreeAssumption
  <2> QED  BY <2>1, <2>2 DEF TreeTypeOK, TypeOK
<1>3. Len(path) = 0 /\ path \in Seq(Node)  OBVIOUS
<1>4. PathInv  BY <1>3 DEF PathInv, TreeAssumption
<1>5. PlaceInv /\ DeviceInv  BY <1>3 DEF PlaceInv, DeviceInv
<1>6. BootFactsExact /\ HartsExact  BY DEF BootFactsExact, HartsExact
<1>7. DevicesExact  BY <1>1 DEF DevicesExact, Device, Facts
<1> QED  BY <1>2, <1>4, <1>5, <1>6, <1>7 DEF TreeInv

LEMMA NextKeepsTreeInv == TreeAssumption /\ TreeInv /\ [Next]_vars => TreeInv'
<1> SUFFICES ASSUME TreeAssumption, TreeInv, [Next]_vars  PROVE TreeInv'
  OBVIOUS
<1>1. CASE UNCHANGED vars
  BY <1>1 DEF vars, blob, locals, TreeInv, TreeTypeOK, TypeOK, PathInv, PlaceInv, DeviceInv,
              BootFactsExact, HartsExact, DevicesExact
<1>2. CASE Next
  BY <1>2, BeginKeeps, RegKeepsInv, CompatibleKeepsInv, TimebaseKeepsInv, InterruptsKeepsInv,
     EndKeepsInv DEF Next
<1> QED  BY <1>1, <1>2

\* The few variables of the parsers say exactly where in the tree the walk is,
\* for trees of any size and depth (dtb.c:38-354).
THEOREM TreeInvariant == Spec => []TreeInv
BY TreeAssumption, InitTreeInv, NextKeepsTreeInv, PTL DEF Spec

\* The memory size, the time base and the PLIC context come from their own nodes.
THEOREM BootFactsAreExact == Spec => []BootFactsExact
<1>1. TreeInv => BootFactsExact  BY DEF TreeInv
<1> QED  BY <1>1, TreeInvariant, PTL

\* The harts are counted exactly, whatever lies in and around the cpus node.
THEOREM HartsAreExact == Spec => []HartsExact
<1>1. TreeInv => HartsExact  BY DEF TreeInv
<1> QED  BY <1>1, TreeInvariant, PTL

\* Each device gets its own registers.
THEOREM DevicesAreExact == Spec => []DevicesExact
<1>1. TreeInv => DevicesExact  BY DEF TreeInv
<1> QED  BY <1>1, TreeInvariant, PTL
=============================================================================
