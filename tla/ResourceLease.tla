--------------------------- MODULE ResourceLease ---------------------------
(***************************************************************************)
(* A named lease of codex_coordination.py (codex_resource_leases), such as *)
(* main_promotion, that every Git operation of the worker pool runs under. *)
(* A holder that is slow is safe: a lease is taken from its owner only     *)
(* when it has expired and the owner's process is dead.                    *)
(***************************************************************************)
EXTENDS Naturals

CONSTANTS
    Holders,        \* threads, by worker_id
    Pids, NoPid,
    Nobody,
    MaxTokens       \* bound on the lease tokens minted in one behaviour

ASSUME LeaseConstants ==
    MaxTokens \in Nat /\ NoPid \notin Pids /\ Nobody \notin Holders

VARIABLES
    lease,      \* the row of codex_resource_leases
    pidOf,      \* the live process each thread runs in
    inside,     \* the token of each thread that is inside, or 0
    minted

leasevars == <<lease, pidOf, inside, minted>>

Tokens == 0 .. MaxTokens

Lease == [owner: Holders \cup {Nobody}, pid: Pids \cup {NoPid},
          token: Tokens, expired: BOOLEAN]

\* A mutant: the free row keeps a pid column of the wrong kind.
NoLeaseSwapped ==
    [owner |-> NoPid, pid |-> Nobody, token |-> 0, expired |-> FALSE]

NoLease == [owner |-> Nobody, pid |-> NoPid, token |-> 0, expired |-> FALSE]

Live == {pidOf[h] : h \in Holders} \ {NoPid}

----------------------------------------------------------------------------
Start(h, p) ==
    /\ pidOf[h] = NoPid
    /\ pidOf' = [pidOf EXCEPT ![h] = p]
    /\ UNCHANGED <<lease, inside, minted>>

Die(p) ==
    /\ p \in Live
    /\ pidOf' = [h \in Holders |-> IF pidOf[h] = p THEN NoPid ELSE pidOf[h]]
    /\ inside' = [h \in Holders |-> IF pidOf[h] = p THEN 0 ELSE inside[h]]
    /\ UNCHANGED <<lease, minted>>

LeaseExpires ==
    /\ lease # NoLease /\ ~lease.expired
    /\ lease' = [lease EXCEPT !.expired = TRUE]
    /\ UNCHANGED <<pidOf, inside, minted>>

\* A mutant: an expired lease may be taken from a live owner.
CanTakeExpired(h) == lease = NoLease \/ lease.owner = h \/ lease.expired

CanTake(h) ==
    \/ lease = NoLease
    \/ lease.owner = h
    \/ lease.expired /\ lease.pid \notin Live

\* An owner that comes back, with a lease its last run left, keeps its token.
AcquireResourceLease(h) ==
    /\ pidOf[h] # NoPid /\ inside[h] = 0
    /\ CanTake(h)
    /\ minted' = IF lease.owner = h THEN minted ELSE minted + 1
    /\ minted' <= MaxTokens
    /\ LET token == IF lease.owner = h THEN lease.token ELSE minted'
       IN  /\ lease' = [owner |-> h, pid |-> pidOf[h], token |-> token,
                        expired |-> FALSE]
           /\ inside' = [inside EXCEPT ![h] = token]
    /\ UNCHANGED pidOf

RenewResourceLease(h) ==
    /\ inside[h] # 0
    /\ lease.owner = h /\ lease.token = inside[h]
    /\ lease' = [lease EXCEPT !.expired = FALSE]
    /\ UNCHANGED <<pidOf, inside, minted>>

ReleaseResourceLease(h) ==
    /\ inside[h] # 0
    /\ lease' = IF lease.owner = h /\ lease.token = inside[h] THEN NoLease ELSE lease
    /\ inside' = [inside EXCEPT ![h] = 0]
    /\ UNCHANGED <<pidOf, minted>>

\* The delete raises ("database is locked"): the thread goes on outside.
ReleaseFails(h) ==
    /\ inside[h] # 0
    /\ inside' = [inside EXCEPT ![h] = 0]
    /\ UNCHANGED <<lease, pidOf, minted>>

----------------------------------------------------------------------------
LeaseInit ==
    /\ lease = NoLease
    /\ pidOf = [h \in Holders |-> NoPid]
    /\ inside = [h \in Holders |-> 0]
    /\ minted = 0

LeaseNext ==
    \/ LeaseExpires
    \/ \E p \in Pids : Die(p) \/ \E h \in Holders : Start(h, p)
    \/ \E h \in Holders :
          \/ AcquireResourceLease(h) \/ RenewResourceLease(h)
          \/ ReleaseResourceLease(h) \/ ReleaseFails(h)

LeaseSpec == LeaseInit /\ [][LeaseNext]_leasevars
----------------------------------------------------------------------------
\* The columns and the threads' memory hold values of their types.
LeaseTypeOK ==
    /\ lease \in Lease
    /\ pidOf \in [Holders -> Pids \cup {NoPid}]
    /\ inside \in [Holders -> Tokens]
    /\ minted \in Tokens

\* Two threads are never inside at once, however slow the one that holds the
\* lease is and whatever dies, expires and comes back: promotions, reverts,
\* pushes and worktree clean-ups on main do not overlap, and the daily claim
\* count is read and used by one worker at a time.
AtMostOneInside ==
    \A g, h \in Holders : inside[g] # 0 /\ inside[h] # 0 => g = h
=============================================================================
