------------------------------ MODULE StakeMap ------------------------------
(***************************************************************************)
(* The non-circulating tracker: the map of stake and pinned accounts, the  *)
(* membership evaluated against the Clock sysvar, and the two expiry sets. *)
(* Everything sits behind one mutex, so each operation of the tracker is   *)
(* an operator from the state to the state (and, for a block, to the       *)
(* StakeBlock it reports).  An expiry set is the set of entries whose flag *)
(* says they are in it.                                                    *)
(***************************************************************************)
EXTENDS Integers, FiniteSets, FiniteSetsExt, Functions, TLC

CONSTANTS Keys,      \* accounts
          Pinned     \* NON_CIRCULATING_ACCOUNTS

ASSUME StakeMapAssumption == Pinned \subseteq Keys

\* An account version: owner, lamports and what the stake data says.
Account(owner, lamports, epoch, time, listed) ==
  [owner |-> owner, lamports |-> lamports, epoch |-> epoch, time |-> time, listed |-> listed]

System(lamports) == Account("system", lamports, 0, 0, FALSE)
Stake(lamports, epoch, time) == Account("stake", lamports, epoch, time, FALSE)
Listed(lamports) == Account("stake", lamports, 0, 0, TRUE)
Closed == System(0)

NoClock == [slot |-> 0, epoch |-> 0, time |-> 0]

\* A partial function with key k removed.
Without(f, k) == Restrict(f, DOMAIN f \ {k})

StakeMapInit ==
  [status |-> "Bootstrapping", slot |-> 0, accounts |-> <<>>, clock |-> NoClock,
   members |-> Pinned, total |-> 0, shadow |-> <<>>]

----------------------------------------------------------------------------
(* One entry                                                               *)

\* entry_from_account: the flags that come from the write.  MEMBER and the
\* expiry set are placed later.
EntryOf(k, a, slot) ==
  [lamports |-> a.lamports, epoch |-> a.epoch, time |-> a.time, slot |-> slot,
   stake |-> a.owner = "stake", listed |-> a.listed, pinned |-> k \in Pinned,
   member |-> FALSE, expiry |-> "never"]

Evaluate(e, clock) ==
  \/ e.pinned
  \/ e.stake /\ (e.listed \/ e.time > clock.time \/ e.epoch > clock.epoch)

Place(e, clock) ==
  LET member == Evaluate(e, clock)
  IN  [e EXCEPT !.member = member,
                !.expiry = IF ~member \/ e.pinned \/ e.listed THEN "never"
                           ELSE IF e.epoch > clock.epoch THEN "epoch" ELSE "time"]

Share(e) == IF e.member THEN e.lamports ELSE 0

----------------------------------------------------------------------------
(* The membership                                                          *)

SetClock(clock, new) == IF new.slot > clock.slot THEN new ELSE clock

\* Mutant: an entry whose epoch lock ends leaves whatever its time lock says.
ExpiredWithEpoch(e, clock) ==
  IF \/ e.expiry = "epoch" /\ e.epoch <= clock.epoch
     \/ e.expiry = "time" /\ e.time <= clock.time
    THEN [e EXCEPT !.member = FALSE, !.expiry = "never"] ELSE e

\* expire, one entry: out of the epoch set into the time set or out of the
\* membership, then out of the time set.
Expired(e, clock) ==
  LET moved == IF e.expiry = "epoch" /\ e.epoch <= clock.epoch
                 THEN [e EXCEPT !.expiry = "time"] ELSE e
  IN  IF moved.expiry = "time" /\ e.time <= clock.time
        THEN [moved EXCEPT !.member = FALSE, !.expiry = "never"] ELSE moved

Expire(nc) ==
  LET after == [k \in DOMAIN nc.accounts |-> Expired(nc.accounts[k], nc.clock)]
      left == {k \in DOMAIN after : nc.accounts[k].member /\ ~after[k].member}
  IN  [nc EXCEPT !.accounts = after,
                 !.members = @ \ left,
                 !.total = @ - MapThenSumSet(LAMBDA k : after[k].lamports, left)]

----------------------------------------------------------------------------
(* Startup                                                                 *)

SeedClock(nc, clock) == [nc EXCEPT !.clock = SetClock(@, clock)]

\* seed_account: only stake-owned and pinned accounts are looked at.
SeedAccount(nc, k, a, slot) ==
  LET wanted == a.owner = "stake" \/ k \in Pinned
      free == k \notin DOMAIN nc.accounts
                /\ (k \notin DOMAIN nc.shadow \/ nc.shadow[k] < slot)
      older == k \in DOMAIN nc.accounts /\ nc.accounts[k].slot < slot
  IN  IF wanted /\ (free \/ older)
        THEN [nc EXCEPT !.accounts = (k :> EntryOf(k, a, slot)) @@ @]
        ELSE nc

\* finish_bootstrap: purge the tombstones, place every entry, flip Live.
CanFlip(nc) == nc.status = "Bootstrapping" /\ nc.clock # NoClock

Flip(nc) ==
  LET kept == {k \in DOMAIN nc.accounts : nc.accounts[k].stake \/ nc.accounts[k].pinned}
      placed == [k \in kept |-> Place(nc.accounts[k], nc.clock)]
  IN  [nc EXCEPT !.accounts = placed,
                 !.members = (@ \ kept) \cup {k \in kept : placed[k].member},
                 !.total = @ + MapThenSumSet(LAMBDA k : Share(placed[k]), kept),
                 !.shadow = <<>>,
                 !.status = "Live"]

----------------------------------------------------------------------------
(* A block                                                                 *)

NoStakeBlock == [delta |-> 0, handled |-> {}, expired |-> {}, changed |-> FALSE]

Owned(nc, k) ==
  nc.status = "Live" /\ k \in DOMAIN nc.accounts /\ nc.accounts[k].stake

\* Mutant: a repaired write replaces a newer one.
TakenInAnyOrder(nc, slot, block) ==
  {k \in DOMAIN block : k \in DOMAIN nc.accounts \/ block[k].owner = "stake" \/ k \in Pinned}

\* The writes of a block the map takes: a stake or pinned account it does not
\* hold yet, or any write newer than the entry it holds.
Taken(nc, slot, block) ==
  {k \in DOMAIN block :
     IF k \in DOMAIN nc.accounts THEN nc.accounts[k].slot < slot
     ELSE block[k].owner = "stake" \/ k \in Pinned}

\* Writes that fall through while no seed has reached the key.
Shadowed(nc, slot, block) ==
  LET fresh == {k \in DOMAIN block \ DOMAIN nc.accounts :
                  block[k].owner # "stake" /\ k \notin Pinned}
  IN  [k \in fresh |-> IF k \in DOMAIN nc.shadow THEN Max({slot, nc.shadow[k]}) ELSE slot] @@ nc.shadow

\* apply_block for a block that is not a replay, after its clock was stored and
\* the expiries popped.
Fold(nc, slot, block) ==
  LET live == nc.status = "Live"
      taken == Taken(nc, slot, block)
      new == [k \in taken |-> LET e == EntryOf(k, block[k], slot)
                              IN  IF live THEN Place(e, nc.clock) ELSE e]
      was(k) == k \in DOMAIN nc.accounts /\ nc.accounts[k].member
      old(k) == IF k \in DOMAIN nc.accounts THEN Share(nc.accounts[k]) ELSE 0
  IN  [map |-> [nc EXCEPT
                 !.accounts = new @@ @,
                 !.members = IF live THEN (@ \ taken) \cup {k \in taken : new[k].member} ELSE @,
                 !.total = IF live
                             THEN @ + MapThenSumSet(LAMBDA k : Share(new[k]) - old(k), taken)
                             ELSE @,
                 !.shadow = IF live THEN @ ELSE Shadowed(nc, slot, block)],
       delta |-> MapThenSumSet(LAMBDA k : block[k].lamports - nc.accounts[k].lamports,
                        {k \in taken : Owned(nc, k)}),
       handled |-> {k \in DOMAIN block : Owned(nc, k)},
       changed |-> live /\ \E k \in taken : was(k) # new[k].member]

\* apply_block: a replayed live block is dropped; the clock of the block (none
\* in a repaired block whose slot no longer holds it) comes before its accounts.
ApplyStakeBlock(nc, slot, repaired, clock, block) ==
  IF ~repaired /\ slot <= nc.slot
    THEN [map |-> nc, block |-> NoStakeBlock]
    ELSE LET stored == [nc EXCEPT !.slot = Max({@, slot}), !.clock = SetClock(@, clock)]
             ticked == IF stored.clock # nc.clock /\ nc.status = "Live"
                         THEN Expire(stored) ELSE stored
             left == nc.members \ ticked.members
             folded == Fold(ticked, slot, block)
         IN  [map |-> folded.map,
              block |-> [delta |-> folded.delta, handled |-> folded.handled,
                         expired |-> left, changed |-> folded.changed \/ left # {}]]

----------------------------------------------------------------------------
(* What the tracker tells others                                           *)

\* total: None (-1) before Live.
Total(nc) == IF nc.status = "Live" THEN nc.total ELSE -1

\* members: the applied slot and the list, empty before Live.
Members(nc) == [slot |-> nc.slot, list |-> IF nc.status = "Live" THEN nc.members ELSE {}]

IsNonCirculating(nc, k) == nc.status = "Live" /\ k \in nc.members
=============================================================================
