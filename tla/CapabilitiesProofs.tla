------------------------- MODULE CapabilitiesProofs -------------------------
(* Theorems about Capabilities, for any number of processes and harts *)
EXTENDS Capabilities, TLAPS

\* The rights that cannot be had over the shell
Power == {"grant", "forward"}

\* Words under way do not give them either: what a call loaded it may store
\* at any time.
WordsHarmless ==
  \A p \in Proc : storing[p] # Null => storing[p].word[1] \cap Power = {}

RightsTyped ==
  /\ rights \in [Proc -> Word]
  /\ storing \in [Proc -> [at : Nat, word : Word] \cup {Null}]
  /\ outside \in BOOLEAN

CapInv == RightsTyped /\ (outside \/ (NobodyGrantsShell /\ WordsHarmless))

-----------------------------------------------------------------------------
\* Every a1 has a nibble in some word; one that is a pid has its own, in the
\* only word of the table.
LEMMA NibbleFacts ==
  ASSUME CapabilityAssumption, NEW p \in Proc, NEW a1 \in Args
  PROVE  /\ Nibble(a1) \in Index
         /\ Address(p, a1) \in Nat
         /\ a1 \in Index => Nibble(a1) = a1 /\ Address(p, a1) = Root[p]
<1>1. a1 \in Nat /\ Width \in Nat \ {0} /\ Root[p] \in Nat
  BY DEF CapabilityAssumption
<1>2. a1 % Width \in 0..Width - 1 /\ a1 \div Width \in Nat  BY <1>1, SMT
<1>3. a1 \in 0..Width - 1 => a1 % Width = a1 /\ a1 \div Width = 0  BY <1>1, SMT
<1> QED  BY <1>1, <1>2, <1>3 DEF Nibble, Address, Index

\* What is loaded is a word, and with a pid for a1 that of the table meant.
LEMMA LoadedFacts ==
  ASSUME CapabilityAssumption, RightsTyped, NEW p \in Proc, NEW a1 \in Args,
         NEW word \in Loaded(p, a1)
  PROVE  word \in Word /\ (a1 \in Index => word = rights[p])
<1>1. CASE \E t \in Proc : Root[t] = Address(p, a1)
  <2>1. PICK t \in Proc : Root[t] = Address(p, a1) /\ word = rights[t]
    BY <1>1 DEF Loaded
  <2>2. a1 \in Index => t = p
    BY <2>1, NibbleFacts DEF CapabilityAssumption, IsInjective
  <2> QED  BY <2>1, <2>2 DEF RightsTyped
<1>2. CASE ~\E t \in Proc : Root[t] = Address(p, a1)
  <2>1. word \in Foreign  BY <1>2 DEF Loaded
  <2>2. a1 \notin Index  BY <1>2, NibbleFacts
  <2> QED  BY <2>1, <2>2 DEF CapabilityAssumption
<1> QED  BY <1>1, <1>2

\* What Overwrite leaves in storing: with a pid for a1, the rights of t,
\* changed in a1 only
LEMMA OverwriteFacts ==
  ASSUME CapabilityAssumption, RightsTyped, NEW p \in Proc, NEW t \in Proc,
         NEW a1 \in Args, NEW R \in SUBSET Right, Overwrite(p, t, a1, R)
  PROVE  /\ RightsTyped'
         /\ rights' = rights
         /\ storing'[p] # Null /\ ~outside' =>
              a1 \in Index /\ storing'[p].word = [rights[t] EXCEPT ![a1] = R]
         /\ \A r \in Proc \ {p} : storing'[r] = storing[r]
<1>1. PICK word \in Loaded(t, a1) :
        storing' = [storing EXCEPT ![p] =
          [at |-> Address(t, a1), word |-> [word EXCEPT ![Nibble(a1)] = R]]]
  BY DEF Overwrite
<1>2. word \in Word /\ (a1 \in Index => word = rights[t])  BY LoadedFacts
<1>3. [word EXCEPT ![Nibble(a1)] = R] \in Word
  BY <1>2, NibbleFacts DEF Word
<1>4. RightsTyped'
  BY <1>1, <1>3, NibbleFacts DEF RightsTyped, Overwrite
<1>5. storing'[p].word = [word EXCEPT ![Nibble(a1)] = R]
      /\ \A r \in Proc \ {p} : storing'[r] = storing[r]
  BY <1>1 DEF RightsTyped
<1>6. ~outside' => a1 \in Index  BY DEF Overwrite
<1> QED  BY <1>2, <1>4, <1>5, <1>6, NibbleFacts DEF Overwrite

\* A grant with a pid for a1 hands on rights over it that its caller has.
LEMMA GrantFacts ==
  ASSUME CapabilityAssumption, RightsTyped, NEW p \in Proc, NEW t \in Proc,
         NEW a1 \in Args, NEW R \in Grants, Grant(p, t, a1, R), a1 \in Index
  PROVE  "grant" \in rights[p][a1] /\ R \subseteq rights[p][a1]
<1>1. PICK mine \in Loaded(p, a1) : Possesses(mine[Nibble(a1)], R)
  BY DEF Grant
<1>2. mine = rights[p] /\ Nibble(a1) = a1  BY LoadedFacts, NibbleFacts
<1> QED  BY <1>1, <1>2 DEF Possesses

\* What Store leaves in rights
LEMMA StoreFacts ==
  ASSUME CapabilityAssumption, RightsTyped, NEW p \in Proc, Store(p)
  PROVE  /\ storing[p] \in [at : Nat, word : Word]
         /\ RightsTyped'
         /\ outside' = outside
         /\ storing'[p] = Null
         /\ \A r \in Proc \ {p} : storing'[r] = storing[r]
         /\ \A r \in Proc : rights'[r] \in {rights[r], storing[p].word}
<1>1. storing[p] \in [at : Nat, word : Word]  BY DEF RightsTyped, Store
<1>2. RightsTyped'  BY <1>1 DEF RightsTyped, Store
<1> QED  BY <1>1, <1>2 DEF RightsTyped, Store

LEMMA InitCapInv ==
  ASSUME CapabilityAssumption, Init
  PROVE  CapInv
<1>1. \A p \in Proc, q \in Index : Spawned(p, q) \in SUBSET Right
  BY DEF Spawned, Right
<1>2. rights \in [Proc -> Word]  BY <1>1 DEF Init, Word
<1>3. \A p \in Proc : rights[p][1] = Spawned(p, 1)  BY DEF Init, CapabilityAssumption
<1>4. \A p \in Proc : Spawned(p, 1) \subseteq {"read", "write"}  BY DEF Spawned
<1>5. NobodyGrantsShell  BY <1>3, <1>4 DEF NobodyGrantsShell
<1> QED  BY <1>2, <1>5 DEF Init, CapInv, RightsTyped, WordsHarmless

-----------------------------------------------------------------------------
LEMMA GrantKeeps ==
  ASSUME CapabilityAssumption, CapInv,
         NEW p \in Proc, NEW t \in Proc, NEW a1 \in Args, NEW R \in Grants,
         Grant(p, t, a1, R)
  PROVE  CapInv'
<1>1. R \in SUBSET Right  BY DEF CapabilityAssumption
<1>2. Overwrite(p, t, a1, R) /\ ~outside  BY DEF Grant, CanCall
<1>3. /\ RightsTyped' /\ rights' = rights
      /\ storing'[p] # Null /\ ~outside' =>
           a1 \in Index /\ storing'[p].word = [rights[t] EXCEPT ![a1] = R]
      /\ \A r \in Proc \ {p} : storing'[r] = storing[r]
  BY <1>1, <1>2, OverwriteFacts DEF CapInv
<1>4. ASSUME ~outside', storing'[p] # Null
      PROVE  storing'[p].word[1] \cap Power = {}
  <2>1. a1 # 1
    BY <1>2, <1>3, <1>4, GrantFacts DEF CapInv, NobodyGrantsShell
  <2>2. storing'[p].word[1] = rights[t][1]
    BY <1>3, <1>4, <2>1 DEF CapInv, RightsTyped, Word, CapabilityAssumption
  <2> QED  BY <1>2, <2>2 DEF CapInv, NobodyGrantsShell, Power
<1>5. outside' \/ WordsHarmless'
  BY <1>2, <1>3, <1>4 DEF CapInv, WordsHarmless
<1> QED  BY <1>2, <1>3, <1>5 DEF CapInv, NobodyGrantsShell

LEMMA RevokeKeeps ==
  ASSUME CapabilityAssumption, CapInv,
         NEW p \in Proc, NEW t \in Proc, NEW a1 \in Args, Revoke(p, t, a1)
  PROVE  CapInv'
<1>1. PICK none \in SUBSET Right : none = {}  OBVIOUS
<1>2. Overwrite(p, t, a1, none) /\ ~outside  BY <1>1 DEF Revoke, CanCall
<1>3. /\ RightsTyped' /\ rights' = rights
      /\ storing'[p] # Null /\ ~outside' =>
           a1 \in Index /\ storing'[p].word = [rights[t] EXCEPT ![a1] = none]
      /\ \A r \in Proc \ {p} : storing'[r] = storing[r]
  BY <1>2, OverwriteFacts DEF CapInv
<1>4. ASSUME ~outside', storing'[p] # Null
      PROVE  storing'[p].word[1] \cap Power = {}
  <2>1. storing'[p].word[1] \in {rights[t][1], {}}
    BY <1>1, <1>3, <1>4 DEF CapInv, RightsTyped, Word, CapabilityAssumption
  <2> QED  BY <1>2, <2>1 DEF CapInv, NobodyGrantsShell, Power
<1>5. outside' \/ WordsHarmless'
  BY <1>2, <1>3, <1>4 DEF CapInv, WordsHarmless
<1> QED  BY <1>2, <1>3, <1>5 DEF CapInv, NobodyGrantsShell

LEMMA StoreKeeps ==
  ASSUME CapabilityAssumption, CapInv, NEW p \in Proc, Store(p)
  PROVE  CapInv'
<1>1. RightsTyped  BY DEF CapInv
<1>2. outside' \/ NobodyGrantsShell'
  BY <1>1, StoreFacts DEF NobodyGrantsShell, CapInv, WordsHarmless, Power, Store
<1>3. outside' \/ WordsHarmless'  BY <1>1, StoreFacts DEF CapInv, WordsHarmless
<1> QED  BY <1>1, <1>2, <1>3, StoreFacts DEF CapInv

LEMMA StepKeeps ==
  ASSUME CapabilityAssumption, CapInv, [Next]_vars
  PROVE  CapInv'
<1>1. CASE UNCHANGED <<rights, storing, outside>>
  BY <1>1 DEF CapInv, RightsTyped, NobodyGrantsShell, WordsHarmless
<1>2. ASSUME NEW p \in Proc, Store(p)  PROVE CapInv'
  BY <1>2, StoreKeeps
<1>3. ASSUME NEW p \in Proc, NEW t \in Proc, NEW a1 \in Args, Revoke(p, t, a1)
      PROVE CapInv'
  BY <1>3, RevokeKeeps
<1>4. ASSUME NEW p \in Proc, NEW t \in Proc, NEW a1 \in Args, NEW R \in Grants,
             Grant(p, t, a1, R)
      PROVE CapInv'
  BY <1>4, GrantKeeps
<1> QED
  BY <1>1, <1>2, <1>3, <1>4 DEF Next, vars, AddToWhitelist, RemoveFromWhitelist

\* As long as every a1 is a pid, no process obtains the right to grant or
\* forward rights over the shell, however the calls of strap_router interleave
\* (main.c:552-658).
THEOREM NobodyGrantsShellTheorem ==
  ASSUME CapabilityAssumption
  PROVE  Spec => []NobodyGrantsShell
<1>1. Init => CapInv  BY InitCapInv
<1>2. CapInv /\ [Next]_vars => CapInv'  BY StepKeeps
<1>3. CapInv => NobodyGrantsShell  BY DEF CapInv, NobodyGrantsShell
<1> QED  BY <1>1, <1>2, <1>3, PTL DEF Spec

-----------------------------------------------------------------------------
\* The rights over q that are held or under way
Known(q) == Held(q) \cup OnTheirWay(q)

LEMMA HeldElement ==
  ASSUME NEW q \in Index, NEW x
  PROVE  x \in Held(q) <=> \E p \in Proc : x \in rights[p][q]
BY DEF Held

LEMMA OnTheirWayElement ==
  ASSUME NEW q \in Index, NEW x
  PROVE  x \in OnTheirWay(q) <=>
           \E p \in Proc : storing[p] # Null /\ x \in storing[p].word[q]
BY DEF OnTheirWay

\* A call that loads the rights of t and changes those over a1 to R makes known
\* what was held before, and R.
LEMMA OverwriteKnown ==
  ASSUME CapabilityAssumption, RightsTyped, NEW p \in Proc, NEW t \in Proc,
         NEW a1 \in Args, NEW R \in SUBSET Right, Overwrite(p, t, a1, R),
         ~outside', R \subseteq Held(a1), NEW c \in Index
  PROVE  Known(c)' \subseteq Known(c)
<1>1. /\ rights' = rights
      /\ storing'[p] # Null =>
           a1 \in Index /\ storing'[p].word = [rights[t] EXCEPT ![a1] = R]
      /\ \A r \in Proc \ {p} : storing'[r] = storing[r]
  BY OverwriteFacts
<1>2. Held(c)' = Held(c)  BY <1>1 DEF Held
<1>3. storing'[p] # Null => storing'[p].word[c] \subseteq Held(c)
  BY <1>1, HeldElement DEF RightsTyped, Word
<1>4. OnTheirWay(c)' \subseteq Held(c) \cup OnTheirWay(c)
  <2> SUFFICES ASSUME NEW x \in OnTheirWay(c)'
               PROVE  x \in Held(c) \cup OnTheirWay(c)
    OBVIOUS
  <2>1. PICK r \in Proc : storing'[r] # Null /\ x \in storing'[r].word[c]
    BY DEF OnTheirWay
  <2>2. CASE r = p  BY <2>1, <2>2, <1>3
  <2>3. CASE r # p  BY <2>1, <2>3, <1>1, OnTheirWayElement
  <2> QED  BY <2>2, <2>3
<1> QED  BY <1>2, <1>4 DEF Known

LEMMA StoreKnown ==
  ASSUME CapabilityAssumption, RightsTyped, NEW p \in Proc, Store(p),
         NEW c \in Index
  PROVE  Known(c)' \subseteq Known(c)
<1>1. /\ storing[p] \in [at : Nat, word : Word] /\ storing[p] # Null
      /\ storing'[p] = Null
      /\ \A r \in Proc \ {p} : storing'[r] = storing[r]
      /\ \A r \in Proc : rights'[r] \in {rights[r], storing[p].word}
  BY StoreFacts DEF Store
<1> SUFFICES ASSUME NEW x \in Known(c)' PROVE x \in Known(c)
  OBVIOUS
<1>2. CASE x \in Held(c)'
  <2>1. PICK r \in Proc : x \in rights'[r][c]  BY <1>2 DEF Held
  <2>2. CASE rights'[r] = storing[p].word
    BY <2>1, <2>2, <1>1, OnTheirWayElement DEF Known
  <2>3. CASE rights'[r] = rights[r]
    BY <2>1, <2>3, <1>1, HeldElement DEF Known
  <2> QED  BY <1>1, <2>2, <2>3
<1>3. CASE x \in OnTheirWay(c)'
  <2>1. PICK r \in Proc : storing'[r] # Null /\ x \in storing'[r].word[c]
    BY <1>3 DEF OnTheirWay
  <2>2. r # p  BY <2>1, <1>1
  <2> QED  BY <2>1, <2>2, <1>1, OnTheirWayElement DEF Known
<1> QED  BY <1>2, <1>3 DEF Known

LEMMA StepKnown ==
  ASSUME CapabilityAssumption, RightsTyped, [Next]_vars, ~outside', NEW c \in Index
  PROVE  Known(c)' \subseteq Known(c)
<1>1. CASE UNCHANGED <<rights, storing>>
  BY <1>1 DEF Known, Held, OnTheirWay
<1>2. ASSUME NEW p \in Proc, Store(p)  PROVE Known(c)' \subseteq Known(c)
  BY <1>2, StoreKnown
<1>3. ASSUME NEW p \in Proc, NEW t \in Proc, NEW a1 \in Args, Revoke(p, t, a1)
      PROVE Known(c)' \subseteq Known(c)
  <2>1. PICK none \in SUBSET Right : none = {}  OBVIOUS
  <2>2. Overwrite(p, t, a1, none)  BY <1>3, <2>1 DEF Revoke
  <2>3. none \subseteq Held(a1)  BY <2>1
  <2> QED  BY <2>2, <2>3, OverwriteKnown
<1>4. ASSUME NEW p \in Proc, NEW t \in Proc, NEW a1 \in Args, NEW R \in Grants,
             Grant(p, t, a1, R)
      PROVE Known(c)' \subseteq Known(c)
  <2>1. R \in SUBSET Right  BY DEF CapabilityAssumption
  <2>2. Overwrite(p, t, a1, R)  BY <1>4 DEF Grant
  <2>3. a1 \in Index  BY <2>2 DEF Overwrite
  <2>4. R \subseteq Held(a1)  BY <1>4, <2>3, GrantFacts, HeldElement
  <2> QED  BY <2>1, <2>2, <2>4, OverwriteKnown
<1> QED
  BY <1>1, <1>2, <1>3, <1>4 DEF Next, vars, AddToWhitelist, RemoveFromWhitelist

\* As long as every a1 is a pid, no chain of grants and revocations brings back
\* a right nobody has or is about to store (main.c:558-606, 651).
THEOREM RightsOnlyShrinkTheorem ==
  ASSUME CapabilityAssumption
  PROVE  Spec => RightsOnlyShrink
<1>1. Init => CapInv  BY InitCapInv
<1>2. CapInv /\ [Next]_vars => CapInv'  BY StepKeeps
<1>3. CapInv /\ [Next]_vars =>
        [outside' \/ \A q \in Index :
           (Held(q) \cup OnTheirWay(q))' \subseteq Held(q) \cup OnTheirWay(q)]_vars
  BY StepKnown DEF CapInv, Known
<1> QED  BY <1>1, <1>2, <1>3, PTL DEF Spec, RightsOnlyShrink

-----------------------------------------------------------------------------
\* What a whitelist is at any time
Listing(s) == s \in Seq(Proc) /\ IsInjective(s) /\ Len(s) <= Slots

LEMMA AppendListing ==
  ASSUME CapabilityAssumption, NEW s, Listing(s), NEW t \in Proc,
         t \notin Range(s), Len(s) < Slots
  PROVE  Listing(Append(s, t))
<1>1. Append(s, t) \in Seq(Proc) /\ Len(Append(s, t)) = Len(s) + 1
  BY DEF Listing
<1>2. \A i \in 1..Len(s) : Append(s, t)[i] = s[i]  BY DEF Listing
<1>3. Append(s, t)[Len(s) + 1] = t  BY DEF Listing
<1>4. DOMAIN s = 1..Len(s) /\ DOMAIN Append(s, t) = 1..Len(s) + 1
  BY <1>1 DEF Listing
<1>5. \A i \in 1..Len(s) : s[i] # t  BY <1>4 DEF Range
<1>6. IsInjective(Append(s, t))
  BY <1>2, <1>3, <1>4, <1>5 DEF Listing, IsInjective
<1>7. Len(Append(s, t)) <= Slots  BY <1>1 DEF Listing, CapabilityAssumption
<1> QED  BY <1>1, <1>6, <1>7 DEF Listing

\* Moving the last entry into the gap keeps a whitelist a set.
LEMMA WithoutListing ==
  ASSUME CapabilityAssumption, NEW s, Listing(s), NEW t \in Range(s)
  PROVE  Listing(Without(s, t))
<1> DEFINE k == CHOOSE i \in DOMAIN s : s[i] = t
           w == Without(s, t)
<1>1. DOMAIN s = 1..Len(s) /\ Len(s) \in Nat /\ \A i \in 1..Len(s) : s[i] \in Proc
  BY DEF Listing
<1>2. k \in 1..Len(s)  BY <1>1 DEF Range
<1>3. w = [i \in 1..Len(s) - 1 |-> IF i = k THEN s[Len(s)] ELSE s[i]]
  BY DEF Without
<1> HIDE DEF k, w
<1>4. \A i \in 1..Len(s) - 1 : w[i] \in Proc  BY <1>1, <1>2, <1>3
<1>5. w \in Seq(Proc) /\ Len(w) = Len(s) - 1
  BY <1>1, <1>2, <1>3, <1>4
<1>6. IsInjective(w)
  <2>1. \A i, j \in 1..Len(s) : s[i] = s[j] => i = j
    BY <1>1 DEF Listing, IsInjective
  <2>2. DOMAIN w = 1..Len(s) - 1  BY <1>3
  <2>3. ASSUME NEW i \in 1..Len(s) - 1, NEW j \in 1..Len(s) - 1, w[i] = w[j]
        PROVE  i = j
    BY <2>1, <2>3, <1>1, <1>2, <1>3
  <2> QED  BY <2>2, <2>3 DEF IsInjective
<1>7. Len(w) <= Slots  BY <1>1, <1>5 DEF Listing, CapabilityAssumption
<1> QED  BY <1>5, <1>6, <1>7 DEF Listing, w

ListingInv ==
  /\ whitelist \in [Proc -> Seq(Proc)]
  /\ \A p \in Proc : Listing(whitelist[p])

LEMMA StepListing ==
  ASSUME CapabilityAssumption, ListingInv, [Next]_vars
  PROVE  ListingInv'
<1>1. CASE UNCHANGED whitelist  BY <1>1 DEF ListingInv
<1>2. ASSUME NEW p \in Proc, NEW t \in Proc, AddToWhitelist(p, t)
      PROVE  ListingInv'
  <2>1. Listing(Append(whitelist[p], t))
    BY <1>2, AppendListing DEF AddToWhitelist, Listed, ListingInv
  <2> QED  BY <1>2, <2>1 DEF AddToWhitelist, ListingInv
<1>3. ASSUME NEW p \in Proc, NEW t \in Proc, RemoveFromWhitelist(p, t)
      PROVE  ListingInv'
  <2>1. Listing(Without(whitelist[p], t))
    BY <1>3, WithoutListing DEF RemoveFromWhitelist, ListingInv
  <2>2. Without(whitelist[p], t) \in Seq(Proc)  BY <2>1 DEF Listing
  <2> QED  BY <1>3, <2>1, <2>2 DEF RemoveFromWhitelist, ListingInv
<1> QED
  BY <1>1, <1>2, <1>3 DEF Next, vars, Store, Grant, Revoke, Overwrite

LEMMA InitListing ==
  ASSUME CapabilityAssumption, Init
  PROVE  ListingInv
<1>1. Listing(<<>>)  BY DEF Listing, IsInjective, CapabilityAssumption
<1> QED  BY <1>1 DEF Init, ListingInv

\* A whitelist never holds a process twice or more than its slots
\* (main.c:811-863).
THEOREM WhitelistTheorem ==
  ASSUME CapabilityAssumption
  PROVE  Spec => []WhitelistIsSet
<1>1. Init => ListingInv  BY InitListing
<1>2. ListingInv /\ [Next]_vars => ListingInv'  BY StepListing
<1>3. ListingInv => WhitelistIsSet  BY DEF ListingInv, Listing, WhitelistIsSet
<1> QED  BY <1>1, <1>2, <1>3, PTL DEF Spec

\* Rights, words under way and whitelists stay well formed.
THEOREM CapTypeCorrect ==
  ASSUME CapabilityAssumption
  PROVE  Spec => []TypeOK
<1>1. Init => CapInv /\ ListingInv  BY InitCapInv, InitListing
<1>2. CapInv /\ ListingInv /\ [Next]_vars => CapInv' /\ ListingInv'
  BY StepKeeps, StepListing
<1>3. CapInv /\ ListingInv => TypeOK
  BY DEF CapInv, RightsTyped, ListingInv, Listing, TypeOK
<1> QED  BY <1>1, <1>2, <1>3, PTL DEF Spec
=============================================================================
