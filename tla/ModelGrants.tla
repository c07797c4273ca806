----------------------------- MODULE ModelGrants -----------------------------
(***************************************************************************)
(* A user's grant for delegated model calls, the ledger behind it          *)
(* (src/src/karox/model_grants.py) and the delegators that spend it        *)
(* (GrantBoundDelegator.invoke, GrantEnforcedProvider.complete).           *)
(*                                                                         *)
(* Every method of the store is one BEGIN IMMEDIATE transaction, hence one *)
(* action; a method that raises changes nothing.  Prices, scopes and       *)
(* selectors only decide whether a call is offered at all: a call is its   *)
(* bound, which is measured once in money and once in tokens.              *)
(***************************************************************************)
EXTENDS Integers, FiniteSetsExt

CONSTANTS
  Invoker,      \* processes or threads that delegate a call
  Key,          \* idempotency keys
  Bound,        \* what calls may cost at most
  Budget,       \* what the grant allows of each resource
  MaxCalls, MaxParallel,
  Overrun,      \* by how much a provider may exceed the bound of a call
  MaxCrash,     \* how often a delegator may vanish
  MaxBill,      \* requests for a key stop when it was charged so much
  Reuse,        \* which reservations a later request for its key may meet
  None

ASSUME GrantAssumption ==
  /\ Bound \subseteq Nat \ {0} /\ Bound # {} /\ IsFiniteSet(Bound) /\ Budget \in Nat
  /\ MaxCalls \in Nat /\ MaxParallel \in Nat
  /\ Reuse # {} /\ Reuse \subseteq {"abandoned", "any"}
  /\ MaxCrash \in Nat /\ MaxBill \in Nat /\ Overrun \in Nat
  /\ None \notin Key \cup Nat /\ IsFiniteSet(Key)

Resource == {"money", "tokens"}

Amount == 0 .. Max(Bound) + Overrun

VARIABLES
  grant,        \* the row of the grant
  reservation,  \* the row of each key
  work,         \* what each invoker is doing
  billed,       \* what the provider has charged for each key (history)
  crashes,      \* how often a delegator has vanished
  reuse         \* the environment's choice from Reuse

ledger == <<grant, reservation>>
around == <<crashes, reuse>>
vars == <<ledger, work, billed, around>>

Zero == [r \in Resource |-> 0]
NoRow == [state |-> "none", started |-> FALSE, bound |-> 0, actual |-> Zero]
Idle == [at |-> "idle", key |-> None, price |-> None, usage |-> 0]

Init ==
  /\ grant = [revoked |-> FALSE, expired |-> FALSE,
              calls |-> 0, used |-> Zero, reserved |-> Zero]
  /\ reservation = [k \in Key |-> NoRow]
  /\ work = [i \in Invoker |-> Idle]
  /\ billed = [k \in Key |-> 0]
  /\ crashes = 0 /\ reuse \in Reuse

Open == {k \in Key : reservation[k].state = "reserved"}

-----------------------------------------------------------------------------
(* The user and the clock.                                                 *)

Revoke ==
  /\ grant' = [grant EXCEPT !.revoked = TRUE]
  /\ UNCHANGED <<reservation, work, billed, around>>

GrantExpires ==
  /\ grant' = [grant EXCEPT !.expired = TRUE]
  /\ UNCHANGED <<reservation, work, billed, around>>

-----------------------------------------------------------------------------
(* The store.                                                              *)

\* A budget that forgets what parallel calls have reserved.
AuthorizedOnUse(b) ==
  /\ ~grant.revoked /\ ~grant.expired
  /\ grant.calls + 1 <= MaxCalls
  /\ Cardinality(Open) < MaxParallel
  /\ \A r \in Resource : grant.used[r] + b <= Budget

Authorized(b) ==
  /\ ~grant.revoked /\ ~grant.expired
  /\ grant.calls + 1 <= MaxCalls
  /\ Cardinality(Open) < MaxParallel
  /\ \A r \in Resource : grant.used[r] + grant.reserved[r] + b <= Budget

\* What a settlement or a cancellation gives back.
Less(total, b) == IF total > b THEN total - b ELSE 0
Unreserved(b) == [r \in Resource |-> Less(grant.reserved[r], b)]

\* The counters are moved, the row is closed, and a call that used more than it
\* reserved, or than the grant allows, revokes the grant.  A price nobody knows
\* is the bound of a call that started.
SettleRow(k, price, usage) ==
  LET row == reservation[k]
      cost == IF price # None THEN price ELSE IF row.started THEN row.bound ELSE 0
      actual == [r \in Resource |-> IF r = "money" THEN cost ELSE usage]
      used == [r \in Resource |-> grant.used[r] + actual[r]]
      breach == \E r \in Resource : actual[r] > row.bound \/ used[r] > Budget
  IN /\ grant' = [grant EXCEPT !.used = used, !.reserved = Unreserved(row.bound),
                               !.revoked = @ \/ breach]
     /\ reservation' =
          [reservation EXCEPT ![k] = [@ EXCEPT !.state = "settled", !.actual = actual]]

\* The reservation is released; the call itself is not refunded.
CancelRow(k) ==
  /\ grant' = [grant EXCEPT !.reserved = Unreserved(reservation[k].bound)]
  /\ reservation' = [reservation EXCEPT ![k].state = "cancelled"]

-----------------------------------------------------------------------------
(* A delegator's request for one call.                                     *)

Becomes(i, from, to) ==
  /\ work[i].at = from
  /\ work' = IF to = "idle" THEN [work EXCEPT ![i] = Idle]
                            ELSE [work EXCEPT ![i].at = to]

ReserveNew(i, k, b) ==
  /\ work[i].at = "idle" /\ reservation[k].state = "none" /\ Authorized(b)
  /\ grant' = [grant EXCEPT !.calls = @ + 1,
                            !.reserved = [r \in Resource |-> @[r] + b]]
  /\ reservation' = [reservation EXCEPT ![k] =
       [state |-> "reserved", started |-> FALSE, bound |-> b, actual |-> Zero]]
  /\ work' = [work EXCEPT ![i] = [Idle EXCEPT !.at = "reserved", !.key = k]]
  /\ UNCHANGED <<billed, around>>

\* reserve answers with the row of an earlier request for the key, and the
\* delegator goes on unless that call was settled or had started.  Under
\* "abandoned" it is an open row that nobody works on any more.
ReserveAgain(i, k, b) ==
  /\ work[i].at = "idle" /\ reservation[k].state \in {"reserved", "cancelled"}
  /\ ~reservation[k].started /\ reservation[k].bound = b /\ billed[k] < MaxBill
  /\ reuse = "abandoned" =>
       reservation[k].state = "reserved" /\ \A j \in Invoker : work[j].key # k
  /\ work' = [work EXCEPT ![i] = [Idle EXCEPT !.at = "reserved", !.key = k]]
  /\ UNCHANGED <<ledger, billed, around>>

\* Of a row that is not open the mark changes nothing, and says so to nobody.
MarkStarted(i) ==
  LET k == work[i].key IN
  /\ Becomes(i, "reserved", "calling")
  /\ reservation' = [reservation EXCEPT ![k].started = @ \/ k \in Open]
  /\ UNCHANGED <<grant, billed, around>>

\* Local preparation fails: the caller aborts before anything is dispatched.
PreparationFails(i) ==
  Becomes(i, "reserved", "failed") /\ UNCHANGED <<ledger, billed, around>>

\* The provider answers and reports what it charges, or nothing of it: then it
\* is within the bound, for the dispatch is price capped.  Usage that is not
\* reported counts as zero.
Answers(i, cost, price, usage) ==
  LET k == work[i].key IN
  /\ work[i].at = "calling"
  /\ price = cost \/ (price = None /\ cost <= reservation[k].bound)
  /\ work' = [work EXCEPT ![i] = [@ EXCEPT !.at = "answered", !.price = price, !.usage = usage]]
  /\ billed' = [billed EXCEPT ![k] = @ + cost]
  /\ UNCHANGED <<ledger, around>>

\* The call raises; what it cost nobody knows.
CallFails(i, cost) ==
  LET k == work[i].key IN
  /\ Becomes(i, "calling", "failed") /\ cost <= reservation[k].bound
  /\ billed' = [billed EXCEPT ![k] = @ + cost]
  /\ UNCHANGED <<ledger, around>>

\* A second settlement that replaces the first one.
SettleLast(i) ==
  LET k == work[i].key IN
  /\ Becomes(i, "answered", "idle")
  /\ IF reservation[k].state # "cancelled"
     THEN SettleRow(k, work[i].price, work[i].usage) ELSE UNCHANGED ledger
  /\ UNCHANGED <<billed, around>>

\* A second settlement returns the first one; one of a cancelled row raises.
Settle(i) ==
  LET k == work[i].key IN
  /\ Becomes(i, "answered", "idle")
  /\ IF k \in Open THEN SettleRow(k, work[i].price, work[i].usage) ELSE UNCHANGED ledger
  /\ UNCHANGED <<billed, around>>

\* An abort that takes every call back, dispatched or not.
AbortRefunding(i) ==
  LET k == work[i].key IN
  /\ Becomes(i, "failed", "idle")
  /\ IF k \in Open THEN CancelRow(k) ELSE UNCHANGED ledger
  /\ UNCHANGED <<billed, around>>

\* An abort that trusts its caller: no look at the row, no floor at zero.
AbortBlindly(i) ==
  LET k == work[i].key IN
  /\ Becomes(i, "failed", "idle")
  /\ grant' = [grant EXCEPT !.reserved = [r \in Resource |-> @[r] - reservation[k].bound]]
  /\ reservation' = [reservation EXCEPT ![k].state = "cancelled"]
  /\ UNCHANGED <<billed, around>>

\* abort: a call that never started is cancelled.  One that did is settled, in
\* a second transaction.
Abort(i) ==
  LET k == work[i].key IN
  /\ IF k \in Open /\ reservation[k].started
     THEN Becomes(i, "failed", "consuming") /\ UNCHANGED ledger
     ELSE /\ Becomes(i, "failed", "idle")
          /\ IF k \in Open THEN CancelRow(k) ELSE UNCHANGED ledger
  /\ UNCHANGED <<billed, around>>

\* The second transaction does not look at the row again.
ConsumeBlindly(i) ==
  LET k == work[i].key IN
  /\ Becomes(i, "consuming", "idle")
  /\ SettleRow(k, None, reservation[k].bound)
  /\ UNCHANGED <<billed, around>>

Consume(i) ==
  LET k == work[i].key IN
  /\ Becomes(i, "consuming", "idle")
  /\ IF k \in Open THEN SettleRow(k, None, reservation[k].bound)
                   ELSE UNCHANGED ledger
  /\ UNCHANGED <<billed, around>>

\* The process dies, or the database is locked for too long when the call is
\* marked: nobody gives the reservation back.  A call under way may be charged.
Vanish(i, cost) ==
  /\ work[i].at # "idle" /\ work' = [work EXCEPT ![i] = Idle]
  /\ crashes < MaxCrash /\ crashes' = crashes + 1
  /\ IF work[i].at = "calling"
     THEN /\ cost <= reservation[work[i].key].bound
          /\ billed' = [billed EXCEPT ![work[i].key] = @ + cost]
     ELSE cost = 0 /\ UNCHANGED billed
  /\ UNCHANGED <<ledger, reuse>>

Step(i) ==
  \/ MarkStarted(i) \/ PreparationFails(i)
  \/ \E cost, usage \in Amount, price \in Amount \cup {None} :
       Answers(i, cost, price, usage)
  \/ \E cost \in Amount : CallFails(i, cost)
  \/ Settle(i) \/ Abort(i) \/ Consume(i)

Next ==
  \/ Revoke \/ GrantExpires
  \/ \E i \in Invoker :
       \/ \E k \in Key, b \in Bound : ReserveNew(i, k, b) \/ ReserveAgain(i, k, b)
       \/ Step(i)
       \/ \E cost \in Amount : Vanish(i, cost)

Spec == Init /\ [][Next]_vars

-----------------------------------------------------------------------------
(* Properties.                                                             *)

\* Every variable stays in its domain.
GrantTypeOK ==
  /\ grant \in [revoked : BOOLEAN, expired : BOOLEAN,
                calls : Nat, used : [Resource -> Nat], reserved : [Resource -> Nat]]
  /\ reservation \in [Key -> [state : {"none", "reserved", "settled", "cancelled"},
                              started : BOOLEAN, bound : Nat, actual : [Resource -> Nat]]]
  /\ work \in [Invoker -> [at : {"idle", "reserved", "calling", "answered", "failed", "consuming"},
                           key : Key \cup {None}, price : Nat \cup {None}, usage : Nat]]
  /\ billed \in [Key -> Nat] /\ crashes \in Nat /\ reuse \in Reuse

\* The counters of the grant are the sums of its rows, whatever order the
\* settlements, aborts and retries of several delegators come in: nothing is
\* counted twice, nothing is given back twice.
LedgerAgrees ==
  \A r \in Resource :
    /\ grant.reserved[r] = MapThenSumSet(LAMBDA k : reservation[k].bound, Open)
    /\ grant.used[r] = MapThenSumSet(LAMBDA k : reservation[k].actual[r], Key)

\* What is used and what is promised stay within the grant; a provider that
\* overcharges or overruns takes the whole grant with it.
BudgetHolds ==
  grant.revoked \/ \A r \in Resource : grant.used[r] + grant.reserved[r] <= Budget

\* The ledger covers the provider's bill of every call it has closed, in the
\* dark as well: a failure or an abort after dispatch is never interpreted as
\* free, as long as no two delegators meet in one key.
NothingIsFree ==
  reuse = "abandoned" =>
    \A k \in Key \ Open : billed[k] <= reservation[k].actual["money"]

\* A call that started is decided once: its row never opens again and its
\* settlement is never replaced, whoever settles or aborts it later.
SettlementIsFinal ==
  [][\A k \in Key : reservation[k].state \in {"settled", "cancelled"} =>
        reservation'[k] = reservation[k]]_vars

(* Refuted by a run of its own.                                            *)

\* model_grants.py: "two parallel agents cannot both observe the same remaining
\* budget and overspend it": what the provider charges stays within the grant.
NeverOverspent ==
  grant.revoked \/ MapThenSumSet(LAMBDA k : billed[k], Key) <= Budget
=============================================================================
