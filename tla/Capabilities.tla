---------------------------- MODULE Capabilities ----------------------------
(***************************************************************************)
(* The rights of processes over each other: the system calls grant (10),   *)
(* revoke (11) and update_whitelist (14) of strap_router in kernel/main.c, *)
(* and the rights spawn_process gives.                                     *)
(*                                                                         *)
(* The rights of a process over sixteen others share one word of its       *)
(* capability_root, which grant and revoke load, change and store without a *)
(* lock.  Calls of the processes that run on different harts interleave     *)
(* between check and store.  Here a capability_root is one word, large      *)
(* enough for all processes, where the code has 2048.                      *)
(*                                                                         *)
(* grant and revoke take any a1 for the pid whose rights they change.  One  *)
(* that is no pid reaches a word past the table: the rights another process *)
(* has, or memory that is no table at all.                                 *)
(***************************************************************************)
EXTENDS Integers, Sequences, FiniteSets, Functions

CONSTANTS
  Proc,      \* processes, named by their pid; 1 is the shell
  Harts,     \* the number of harts: so many calls at once
  Slots,     \* length of grant_whitelist, 8 in the code
  Grants,    \* the sets of rights that callers grant
  Width,     \* how many pids a capability_root has room for, 32768 in the code
  Root,      \* Root[p]: the address of p's capability_root, in words
  Args,      \* the values of a1 that callers pass
  Foreign,   \* what a word that belongs to no capability_root may hold
  Null

\* Bits 1, 2, 4 and 8 of a nibble
Right == {"read", "write", "grant", "forward"}

\* The pids a word has a nibble for
Index == 0..Width - 1

Word == [Index -> SUBSET Right]

ASSUME CapabilityAssumption ==
  /\ Width \in Nat \ {0}
  /\ Proc \subseteq Index \ {0} /\ 1 \in Proc
  /\ Harts \in Nat \ {0} /\ Slots \in Nat \ {0}
  /\ Grants \subseteq SUBSET Right
  /\ Root \in [Proc -> Nat] /\ IsInjective(Root)
  /\ Args \subseteq Nat
  /\ Foreign \subseteq Word

VARIABLES
  rights,      \* rights[p][q]: what capability_root of p says about q
  whitelist,   \* whitelist[p]: the first active_grant slots of grant_whitelist
  storing,     \* storing[p]: the word p's call is about to store, and where
  outside      \* a call with an a1 past the table got as far as its store

vars == <<rights, whitelist, storing, outside>>

TypeOK ==
  /\ rights \in [Proc -> Word]
  /\ whitelist \in [Proc -> Seq(Proc)]
  /\ storing \in [Proc -> [at : Nat, word : Word] \cup {Null}]
  /\ outside \in BOOLEAN

\* Variant: the shell gets every right over itself, too.
SpawnedShellFirst(p, q) ==
  UNION {IF q = 1 THEN {"read", "write"} ELSE {},
         IF q = p THEN {"read"} ELSE {},
         IF p = 1 /\ q \in Proc THEN Right ELSE {}}

\* The rights of p over q once both have been spawned
Spawned(p, q) ==
  UNION {IF q = 1 THEN {"read", "write"} ELSE {},
         IF q = p THEN {"read"} ELSE {},
         IF p = 1 /\ q \in Proc \ {1} THEN Right ELSE {}}

Init ==
  /\ rights = [p \in Proc |-> [q \in Index |-> Spawned(p, q)]]
  /\ whitelist = [p \in Proc |-> <<>>]
  /\ storing = [p \in Proc |-> Null]
  /\ outside = FALSE

\* A process can make a call if a hart is free to run it.  A store past the
\* table may change any data of the kernel: no call is modelled after it.
CanCall(p) ==
  /\ ~outside /\ storing[p] = Null
  /\ Cardinality({q \in Proc : storing[q] # Null}) < Harts

\* Word a1 \div Width of p's capability_root, and the nibble a call uses of it.
\* (The index has 32 bits.  An a1 for which it wraps is no pid either.)
Address(p, a1) == Root[p] + a1 \div Width
Nibble(a1) == a1 % Width

\* What the word is when it is loaded.  Past the end of memory the load
\* faults, which ends everything.
Loaded(p, a1) ==
  IF \E t \in Proc : Root[t] = Address(p, a1)
  THEN {rights[t] : t \in {r \in Proc : Root[r] = Address(p, a1)}}
  ELSE Foreign

\* Variant: rights are not compared with what the caller has.
PossessesAny(have, R) == "grant" \in have
\* The caller may grant rights over a1 at all, and has those it grants.
Possesses(have, R) == "grant" \in have /\ R \subseteq have

\* It may pass them to anybody, or to those on its whitelist.
MayGrantTo(p, t, have) ==
  "forward" \in have \/ p = 1 \/ t \in Range(whitelist[p])

\* p's call has loaded the word of t that holds a1's nibble, and is about to
\* store it with R there.
Overwrite(p, t, a1, R) ==
  /\ \E word \in Loaded(t, a1) :
       storing' = [storing EXCEPT ![p] =
         [at |-> Address(t, a1), word |-> [word EXCEPT ![Nibble(a1)] = R]]]
  /\ outside' = (a1 \notin Index)
  /\ UNCHANGED <<rights, whitelist>>

\* p grants t the rights R over a1, in place of those t has: the checks and
\* the load.  A call that fails a check changes nothing.
Grant(p, t, a1, R) ==
  /\ CanCall(p)
  /\ \E mine \in Loaded(p, a1) :
       Possesses(mine[Nibble(a1)], R) /\ MayGrantTo(p, t, mine[Nibble(a1)])
  /\ Overwrite(p, t, a1, R)

\* p takes t's rights over a1.  It must be t's parent, which no process is
\* here, or the shell.
Revoke(p, t, a1) == CanCall(p) /\ p = 1 /\ Overwrite(p, t, a1, {})

\* The end of both calls.  What a store into foreign memory changes is not
\* modelled.
Store(p) ==
  /\ storing[p] # Null
  /\ rights' = [t \in Proc |-> IF Root[t] = storing[p].at THEN storing[p].word
                                                        ELSE rights[t]]
  /\ storing' = [storing EXCEPT ![p] = Null]
  /\ UNCHANGED <<whitelist, outside>>

Listed(p, t) == t \in Range(whitelist[p])

AddToWhitelist(p, t) ==
  /\ CanCall(p) /\ ~Listed(p, t) /\ Len(whitelist[p]) < Slots
  /\ whitelist' = [whitelist EXCEPT ![p] = Append(@, t)]
  /\ UNCHANGED <<rights, storing, outside>>

\* Variants: the last entry is cleared, but active_grant stays; or neither.
WithoutCleared(s, t) ==
  LET k == CHOOSE i \in DOMAIN s : s[i] = t
  IN  [[s EXCEPT ![k] = s[Len(s)]] EXCEPT ![Len(s)] = 0]
WithoutCopied(s, t) ==
  LET k == CHOOSE i \in DOMAIN s : s[i] = t
  IN  [s EXCEPT ![k] = s[Len(s)]]

\* The last entry takes the place of t.
Without(s, t) ==
  LET k == CHOOSE i \in DOMAIN s : s[i] = t
  IN  [i \in 1..Len(s) - 1 |-> IF i = k THEN s[Len(s)] ELSE s[i]]

RemoveFromWhitelist(p, t) ==
  /\ CanCall(p) /\ t \in Range(whitelist[p])
  /\ whitelist' = [whitelist EXCEPT ![p] = Without(@, t)]
  /\ UNCHANGED <<rights, storing, outside>>

Next == \E p \in Proc :
  \/ Store(p)
  \/ \E t \in Proc, a1 \in Args :
       Revoke(p, t, a1) \/ \E R \in Grants : Grant(p, t, a1, R)
  \/ \E t \in Proc : AddToWhitelist(p, t) \/ RemoveFromWhitelist(p, t)

Spec == Init /\ [][Next]_vars

-----------------------------------------------------------------------------
\* The rights over q that some process has
Held(q) == UNION {rights[p][q] : p \in Proc}

\* ... or will have once the calls under way have stored
OnTheirWay(q) == UNION {storing[p].word[q] : p \in {r \in Proc : storing[r] # Null}}

\* As long as every a1 is a pid, granting and revoking never bring back a right
\* over a process that nobody has any more: a grant hands on what its caller
\* has (main.c:558-585), and both overwrite (main.c:589, 606, 651).  A call that
\* was overtaken may bring back what it had loaded, and nothing more.
RightsOnlyShrink ==
  [][outside' \/ \A q \in Index :
       (Held(q) \cup OnTheirWay(q))' \subseteq Held(q) \cup OnTheirWay(q)]_vars

\* As long as every a1 is a pid, with any number of harts and with calls that
\* overtake each other between check and store, nobody ever has the right to
\* grant rights over the shell: spawn_process gives it to no process, and no
\* chain of calls produces it (main.c:555-606).
NobodyGrantsShell ==
  outside \/ \A p \in Proc : rights[p][1] \cap {"grant", "forward"} = {}

\* A whitelist stays a set of at most Slots processes, whatever order they
\* come and go in: the lookup stops at the first match, so a second entry of
\* the same process would outlive its removal (main.c:811-863).
WhitelistIsSet ==
  \A p \in Proc : IsInjective(whitelist[p]) /\ Len(whitelist[p]) <= Slots
=============================================================================
