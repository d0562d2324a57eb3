---------------------------- MODULE SessionRegistry ----------------------------
(***************************************************************************)
(* The refresh tokens of one user (services/session): where a token is     *)
(* stored (the REFRESH_TOKENS cache namespace, the refresh_tokens table),  *)
(* the USER_SESSIONS list that revokes them together, and the operations   *)
(* that mint, rotate and revoke them.  Every read-modify-write of the list *)
(* runs inside withLock("user_sessions_lock:<user>"), which CacheLock      *)
(* specifies; here the lock is exclusive, as CacheLock shows it to be on   *)
(* an atomic store while leases hold.                                      *)
(*                                                                         *)
(* An operation is a request; a token is named after the operation that    *)
(* minted it, and a session after the login that opened it.  Access tokens *)
(* (fifteen minutes, cache only) are left out, and so is the durable tier  *)
(* of the cache, which is off unless CACHE_DURABLE_ENABLED is set.         *)
(*                                                                         *)
(* A cache command that fails returns normally (a get answers null): every *)
(* provider swallows its errors.  The TOKEN_REVOKED entry that             *)
(* revokeRefreshToken writes when the delete throws is therefore never     *)
(* written for a token that the cache failed to delete.                    *)
(***************************************************************************)
EXTENDS Naturals, Sequences, FiniteSets, FiniteSetsExt

CONSTANTS Logins,       \* createUserSession requests
          Rotations,    \* updateUserSession requests
          Logouts,      \* logoutCurrentSession requests
          Wipes,        \* revokeAllUserSessions requests
          NoOp,         \* holder of the free lock, argument of no request
          MaxActive,    \* MAX_ACTIVE_SESSIONS
          MaxRequests,  \* bound: requests received, of the four kinds together
          MaxFaults     \* bound: cache commands, row commands and withLocks
                        \* that fail, requests cut off, entries evicted

ASSUME SessionAssumption ==
  /\ Logins \cap Rotations = {} /\ Logouts \cap Wipes = {}
  /\ (Logins \cup Rotations) \cap (Logouts \cup Wipes) = {}
  /\ NoOp \notin Logins \cup Rotations \cup Logouts \cup Wipes
  /\ MaxActive \in Nat \ {0} /\ MaxRequests \in Nat /\ MaxFaults \in Nat

Ops == Logins \cup Rotations \cup Logouts \cup Wipes
Tokens == Logins \cup Rotations

VARIABLES pc,           \* where the request stands
          lk,           \* where its list section stands
          arg,          \* the refresh token it was called with
          sid,          \* session of each token
          cached,       \* REFRESH_TOKENS entries in the cache
          rows,         \* refresh_tokens rows in the global database
          list,         \* USER_SESSIONS entry of the user
          holder,       \* owner of user_sessions_lock
          seen,         \* the list as the section read it
          doomed,       \* tokens a wipe still has to delete from the cache
          issued,       \* tokens returned to a client
          before,       \* tokens issued when a wipe began (kept by the model)
          lost,         \* requests one of whose deletes failed, and wipes whose
                        \* read of the list failed (kept by the model)
          adrift,       \* tokens whose entry the list or a wipe has lost (kept
                        \* by the model)
          faults

vars == <<pc, lk, arg, sid, cached, rows, list, holder, seen, doomed, issued,
          before, lost, adrift, faults>>

Entry == [sid : Logins, tok : Tokens]
TokensOf(s) == {s[i].tok : i \in DOMAIN s}

TypeOK ==
  /\ pc \in [Ops -> {"idle", "find", "warm", "store", "persist", "list",
                     "drop", "forget", "wipe", "done", "failed", "cut"}]
  /\ lk \in [Ops -> {"none", "want", "read", "done", "failed"}]
  /\ arg \in [Ops -> Tokens \cup {NoOp}]
  /\ sid \in [Tokens -> Logins \cup {NoOp}]
  /\ cached \subseteq Tokens /\ rows \subseteq Tokens /\ issued \subseteq Tokens
  /\ list \in Seq(Entry)
  /\ holder \in Ops \cup {NoOp}
  /\ seen \in [Ops -> Seq(Entry)]
  /\ doomed \in [Wipes -> SUBSET Tokens]
  /\ before \in [Wipes -> SUBSET Tokens]
  /\ lost \subseteq Ops /\ adrift \subseteq Tokens
  /\ faults \in 0..MaxFaults

Init ==
  /\ pc = [p \in Ops |-> "idle"] /\ lk = [p \in Ops |-> "none"]
  /\ arg = [p \in Ops |-> NoOp] /\ sid = [t \in Tokens |-> NoOp]
  /\ cached = {} /\ rows = {} /\ issued = {}
  /\ list = <<>> /\ holder = NoOp
  /\ seen = [p \in Ops |-> <<>>]
  /\ doomed = [p \in Wipes |-> {}] /\ before = [p \in Wipes |-> {}]
  /\ lost = {} /\ adrift = {} /\ faults = 0

Finished(p) ==
  /\ pc[p] \in {"done", "failed", "cut"}
  /\ lk[p] \notin {"want", "read"}

Fault == faults < MaxFaults /\ faults' = faults + 1

\* repository.save, deleteByTokenHash, deleteByUserId: an exception is swallowed
RowFault(p) ==
  /\ Fault
  /\ lost' = lost \cup {p}
  /\ UNCHANGED rows
RowWritten(new) == rows' = new /\ UNCHANGED <<lost, faults>>

\* cache.set of a token, which fails silently
CacheSet(t) ==
  \/ cached' = cached \cup {t} /\ UNCHANGED faults
  \/ Fault /\ UNCHANGED cached

\* cache.delete of a token by p, which fails silently
CacheDelete(p, t) ==
  \/ cached' = cached \ {t} /\ UNCHANGED <<lost, faults>>
  \/ Fault /\ lost' = lost \cup {p} /\ UNCHANGED cached

-----------------------------------------------------------------------------
(* Validation and storage of one refresh token *)

\* What validateRefreshToken would decide now
Accepted(t) == t \in cached \/ t \in rows

\* A client gives a token up with the answer to the first request it sent it
\* in; until then a second request (another tab, or a retry when the first
\* was cut off) may carry it too
MayPresent(t) ==
  /\ t \in issued
  /\ \A q \in Ops : arg[q] = t => ~Finished(q) \/ pc[q] = "cut"

Goto(p, l) == pc' = [pc EXCEPT ![p] = l]
Listing(p) == lk' = [lk EXCEPT ![p] = "want"]

\* createUserSession: past validation, rate limit and user lookup, which change
\* nothing here, createAndStoreRefreshToken puts the new token in the cache
Login(p) ==
  /\ p \in Logins /\ pc[p] = "idle"
  /\ sid' = [sid EXCEPT ![p] = p]
  /\ CacheSet(p)
  /\ Goto(p, "persist")
  /\ UNCHANGED <<lk, arg, rows, list, holder, seen, doomed, issued, before, lost, adrift>>

\* Faulty variant: the session id is not carried over to the new token
RotateUnbound(p, t) ==
  /\ p \in Rotations /\ pc[p] = "idle" /\ MayPresent(t)
  /\ arg' = [arg EXCEPT ![p] = t]
  /\ Goto(p, IF t \in cached THEN "store" ELSE "find")
  /\ UNCHANGED <<lk, sid, cached, rows, list, holder, seen, doomed, issued, before, lost, adrift, faults>>

\* updateUserSession: the cache lookup of validateRefreshToken
Rotate(p, t) ==
  /\ p \in Rotations /\ pc[p] = "idle" /\ MayPresent(t)
  /\ arg' = [arg EXCEPT ![p] = t]
  /\ sid' = [sid EXCEPT ![p] = sid[t]]
  /\ \/ Goto(p, IF t \in cached THEN "store" ELSE "find") /\ UNCHANGED faults
     \/ Fault /\ Goto(p, "find")
  /\ UNCHANGED <<lk, cached, rows, list, holder, seen, doomed, issued, before, lost, adrift>>

\* Cache miss: refreshTokenRepository.findByTokenHash, whose failure is a miss
Find(p) ==
  /\ pc[p] = "find"
  /\ \/ Goto(p, IF arg[p] \in rows THEN "warm" ELSE "failed") /\ UNCHANGED faults
     \/ Fault /\ Goto(p, "failed")
  /\ UNCHANGED <<lk, arg, sid, cached, rows, list, holder, seen, doomed, issued, before, lost, adrift>>

\* The row found is written back to the cache
Warm(p) ==
  /\ pc[p] = "warm"
  /\ CacheSet(arg[p])
  /\ Goto(p, "store")
  /\ UNCHANGED <<lk, arg, sid, rows, list, holder, seen, doomed, issued, before, lost, adrift>>

\* A rotation, its token validated: createAndStoreRefreshToken, cache.set
Store(p) ==
  /\ pc[p] = "store"
  /\ CacheSet(p)
  /\ Goto(p, "persist")
  /\ UNCHANGED <<lk, arg, sid, rows, list, holder, seen, doomed, issued, before, lost, adrift>>

\* createAndStoreRefreshToken: repository.save, whose failure is swallowed
Persist(p) ==
  /\ pc[p] = "persist"
  /\ RowWritten(rows \cup {p}) \/ RowFault(p)
  /\ Goto(p, IF p \in Logins THEN "list" ELSE "drop")
  /\ Listing(p)
  /\ UNCHANGED <<arg, sid, cached, list, holder, seen, doomed, issued, before, adrift>>

-----------------------------------------------------------------------------
(* Retiring one token: the end of a rotation, and logout *)

\* logoutCurrentSession: the user is resolved from the access token's session
\* or, when that is gone, from the cached refresh token; when neither lookup
\* answers, the list section is skipped.  The list section and the revocation
\* run in parallel
Logout(p, t) ==
  /\ p \in Logouts /\ pc[p] = "idle" /\ MayPresent(t)
  /\ arg' = [arg EXCEPT ![p] = t]
  /\ \/ /\ \E accessLive \in BOOLEAN :
            lk' = [lk EXCEPT ![p] = IF accessLive \/ t \in cached THEN "want" ELSE "done"]
        /\ UNCHANGED faults
     \/ Fault /\ lk' = [lk EXCEPT ![p] = "done"]
  /\ Goto(p, "drop")
  /\ UNCHANGED <<sid, cached, rows, list, holder, seen, doomed, issued, before, lost, adrift>>

\* Faulty variant: the rotated token stays in the cache until it expires
DropLogoutOnly(p) ==
  /\ pc[p] = "drop"
  /\ p \in Rotations => lk[p] = "done"
  /\ cached' = IF p \in Logouts THEN cached \ {arg[p]} ELSE cached
  /\ Goto(p, "forget")
  /\ UNCHANGED <<lk, arg, sid, rows, list, holder, seen, doomed, issued, before, lost, adrift, faults>>

\* cache.delete of the old token; a rotation gets here after its list section
Drop(p) ==
  /\ pc[p] = "drop"
  /\ p \in Rotations => lk[p] = "done"
  /\ CacheDelete(p, arg[p])
  /\ Goto(p, "forget")
  /\ UNCHANGED <<lk, arg, sid, rows, list, holder, seen, doomed, issued, before, adrift>>

\* Faulty variant: a rotation leaves the row of the old token
ForgetLogoutOnly(p) ==
  /\ pc[p] = "forget"
  /\ rows' = IF p \in Logouts THEN rows \ {arg[p]} ELSE rows
  /\ Goto(p, "done")
  /\ issued' = IF p \in Rotations THEN issued \cup {p} ELSE issued
  /\ UNCHANGED <<lk, arg, sid, cached, list, holder, seen, doomed, before, lost, adrift, faults>>

\* deleteByTokenHash, whose failure is swallowed; a rotation then returns
Forget(p) ==
  /\ pc[p] = "forget"
  /\ RowWritten(rows \ {arg[p]}) \/ RowFault(p)
  /\ Goto(p, "done")
  /\ issued' = IF p \in Rotations THEN issued \cup {p} ELSE issued
  /\ UNCHANGED <<lk, arg, sid, cached, list, holder, seen, doomed, before, adrift>>

-----------------------------------------------------------------------------
(* The list section *)

\* trimAndAppendSession: slice(-max(1, MAX_ACTIVE_SESSIONS - 1)), then push
TrimAndAppend(s, e) ==
  LET keep == Max({1, MaxActive - 1}) IN
  Append(SubSeq(s, Max({1, Len(s) - keep + 1}), Len(s)), e)

\* Faulty variant: entries are matched by the refresh token hash alone
MatchesToken(e, t) == e.tok = t

\* matchesCurrentSession, shouldRemoveUserSession
Matches(e, t) == e.sid = sid[t] \/ e.tok = t

\* Faulty variant: the old entry is left in the list
AppendAlways(s, p) == TrimAndAppend(s, [sid |-> sid[p], tok |-> p])

\* updateUserSession replaces the first matching entry, or appends
ReplaceOrAppend(s, p) ==
  LET new == [sid |-> sid[p], tok |-> p]
      hits == {i \in DOMAIN s : Matches(s[i], arg[p])}
  IN IF hits = {} THEN TrimAndAppend(s, new)
     ELSE [s EXCEPT ![Min(hits)] = new]

\* The list without the session of t
Without(s, t) ==
  LET kept[i \in 0 .. Len(s)] ==
        IF i = 0 THEN <<>>
        ELSE IF Matches(s[i], t) THEN kept[i - 1] ELSE Append(kept[i - 1], s[i])
  IN kept[Len(s)]

\* What each operation leaves of the list, having read seen[p]; a logout that
\* has read nothing writes nothing
Updated(p) ==
  CASE p \in Logins    -> TrimAndAppend(seen[p], [sid |-> p, tok |-> p])
    [] p \in Rotations -> ReplaceOrAppend(seen[p], p)
    [] p \in Logouts   -> IF seen[p] = <<>> THEN list ELSE Without(seen[p], arg[p])
    [] p \in Wipes     -> <<>>

\* Tokens of other sessions whose entry goes with the write: cut by the cap, or
\* not in the list as the section read it
Dropped(p) ==
  IF p \in Wipes THEN TokensOf(list) \ TokensOf(seen[p])
  ELSE {t \in TokensOf(list) \ TokensOf(Updated(p)) : p \in Tokens /\ sid[t] # sid[p]}

\* Faulty variant: the section runs without the lock
EnterUnlocked(p) ==
  /\ lk[p] = "want"
  /\ holder' = p
  /\ seen' = [seen EXCEPT ![p] = list]
  /\ lk' = [lk EXCEPT ![p] = "read"]
  /\ UNCHANGED <<pc, arg, sid, cached, rows, list, doomed, issued, before, lost, adrift, faults>>

\* withLock grants the lock and the section reads the list, which nobody
\* writes outside a section; a read that fails finds no list
Enter(p) ==
  /\ lk[p] = "want" /\ holder = NoOp
  /\ holder' = p
  /\ \/ seen' = [seen EXCEPT ![p] = list] /\ UNCHANGED <<lost, faults>>
     \/ /\ Fault
        /\ seen' = [seen EXCEPT ![p] = <<>>]
        /\ lost' = lost \cup ({p} \cap Wipes)
  /\ lk' = [lk EXCEPT ![p] = "read"]
  /\ UNCHANGED <<pc, arg, sid, cached, rows, list, doomed, issued, before, adrift>>

\* withLock throws.  A login or a rotation fails with it, after its token is
\* stored; a logout and a wipe log the error and return as if done
LockTimesOut(p) ==
  /\ Fault
  /\ lk[p] = "want"
  /\ lk' = [lk EXCEPT ![p] = "failed"]
  /\ pc' = [pc EXCEPT ![p] = IF p \in Tokens THEN "failed"
                             ELSE IF p \in Wipes THEN "done" ELSE @]
  /\ UNCHANGED <<arg, sid, cached, rows, list, holder, seen, doomed, issued, before, lost, adrift>>

\* cache.set or cache.delete of the list, which fails silently, then the finally
\* block of withLock.  A login has nothing left to do; a wipe goes on with the
\* entries it read
WriteList(p) ==
  /\ lk[p] = "read"
  /\ \/ /\ list' = Updated(p)
        /\ adrift' = adrift \cup Dropped(p)
        /\ UNCHANGED faults
     \/ /\ Fault
        /\ adrift' = adrift \cup ({p} \cap Tokens)
        /\ UNCHANGED list
  /\ holder' = IF holder = p THEN NoOp ELSE holder
  /\ lk' = [lk EXCEPT ![p] = "done"]
  /\ seen' = IF p \in Wipes THEN seen ELSE [seen EXCEPT ![p] = <<>>]
  /\ pc' = [pc EXCEPT ![p] = IF p \in Logins THEN "done"
                             ELSE IF p \in Wipes THEN "wipe" ELSE @]
  /\ issued' = IF p \in Logins THEN issued \cup {p} ELSE issued
  /\ doomed' = IF p \in Wipes THEN [doomed EXCEPT ![p] = TokensOf(seen[p])] ELSE doomed
  /\ UNCHANGED <<arg, sid, cached, rows, before, lost>>

-----------------------------------------------------------------------------
(* revokeAllUserSessions *)

WipeStart(p) ==
  /\ p \in Wipes /\ pc[p] = "idle"
  /\ Goto(p, "list")
  /\ Listing(p)
  /\ before' = [before EXCEPT ![p] = issued]
  /\ UNCHANGED <<arg, sid, cached, rows, list, holder, seen, doomed, issued, lost, adrift, faults>>

\* revokeCachedSessionEntries, Promise.all over the entries the section read:
\* the deletes land in any order, and one that fails is not repeated
WipeEntry(p, t) ==
  /\ p \in Wipes /\ pc[p] = "wipe" /\ t \in doomed[p]
  /\ CacheDelete(p, t)
  /\ adrift' = IF p \in lost' THEN adrift \cup {t} ELSE adrift
  /\ doomed' = [doomed EXCEPT ![p] = @ \ {t}]
  /\ UNCHANGED <<pc, lk, arg, sid, rows, list, holder, seen, issued, before>>

\* Faulty variant: the rows are left to the cleanup job
WipeRowsKept(p) ==
  /\ p \in Wipes /\ pc[p] = "wipe" /\ doomed[p] = {}
  /\ Goto(p, "done")
  /\ UNCHANGED <<lk, arg, sid, cached, rows, list, holder, seen, doomed, issued, before, lost, adrift, faults>>

\* deleteByUserId, whose failure is swallowed
WipeRows(p) ==
  /\ p \in Wipes /\ pc[p] = "wipe" /\ doomed[p] = {}
  /\ \/ RowWritten({}) /\ UNCHANGED adrift
     \/ RowFault(p) /\ adrift' = adrift \cup TokensOf(seen[p])
  /\ Goto(p, "done")
  /\ seen' = [seen EXCEPT ![p] = <<>>]
  /\ UNCHANGED <<lk, arg, sid, cached, list, holder, doomed, issued, before>>

-----------------------------------------------------------------------------
\* The cache drops an entry by itself (LRU, maxmemory): a token's ...
Evict(t) ==
  /\ Fault
  /\ t \in cached
  /\ cached' = cached \ {t}
  /\ UNCHANGED <<pc, lk, arg, sid, rows, list, holder, seen, doomed, issued, before, lost, adrift>>

\* ... or the list of the user's sessions
EvictList ==
  /\ Fault
  /\ list # <<>>
  /\ list' = <<>>
  /\ adrift' = adrift \cup TokensOf(list)
  /\ UNCHANGED <<pc, lk, arg, sid, cached, rows, holder, seen, doomed, issued, before, lost>>

\* The instance stops in the middle of the request.  Its lock runs out, and what
\* a wipe had taken off the list is forgotten
CutOff(p) ==
  /\ Fault
  /\ pc[p] # "idle" /\ ~Finished(p)
  /\ pc' = [pc EXCEPT ![p] = "cut"]
  /\ lk' = [lk EXCEPT ![p] = IF @ \in {"want", "read"} THEN "failed" ELSE @]
  /\ holder' = IF holder = p THEN NoOp ELSE holder
  /\ seen' = [seen EXCEPT ![p] = <<>>]
  /\ doomed' = [w \in Wipes |-> IF w = p THEN {} ELSE doomed[w]]
  /\ adrift' = IF pc[p] = "wipe" THEN adrift \cup TokensOf(seen[p]) ELSE adrift
  /\ UNCHANGED <<arg, sid, cached, rows, list, issued, before, lost>>

\* A step of a request already received
Advance(p) ==
  \/ Find(p) \/ Warm(p) \/ Store(p) \/ Persist(p)
  \/ Drop(p) \/ Forget(p)
  \/ Enter(p) \/ WriteList(p) \/ WipeRows(p) \/ (\E t \in Tokens : WipeEntry(p, t))

Receive(p) ==
  /\ Cardinality({q \in Ops : pc[q] # "idle"}) < MaxRequests
  /\ \/ Login(p) \/ WipeStart(p)
     \/ \E t \in Tokens : Rotate(p, t) \/ Logout(p, t)

Next ==
  \/ \E p \in Ops : Receive(p) \/ Advance(p) \/ LockTimesOut(p) \/ CutOff(p)
  \/ \E t \in Tokens : Evict(t)
  \/ EvictList

Spec == Init /\ [][Next]_vars

-----------------------------------------------------------------------------
\* A request that has run through, with all its deletes
Succeeded(p) == pc[p] = "done" /\ lk[p] = "done" /\ p \notin lost

\* No two requests carried the same token of this session
Unshared(s) ==
  \A p, q \in Ops :
    arg[p] # NoOp /\ arg[p] = arg[q] /\ sid[arg[p]] = s => p = q

\* A rotation or a logout whose deletes went through has retired the token it
\* was given, from the cache and from the table that refills it, whatever other
\* requests store, warm, evict or fail to do meanwhile.
Retired ==
  \A p \in Rotations \cup Logouts :
    Succeeded(p) /\ Unshared(sid[arg[p]]) => ~Accepted(arg[p])

\* Once a logout has returned its client holds no refresh token of that session
\* that is still accepted, whatever rotations went before and whatever else is
\* still running, save tokens whose own rotation failed to delete them.
LogoutEndsSession ==
  \A p \in Logouts :
    Succeeded(p) /\ Unshared(sid[arg[p]]) =>
      \A t \in issued :
        sid[t] = sid[arg[p]] /\ (\A q \in Ops : arg[q] = t => q \notin lost)
          => ~Accepted(t)

\* revokeAllUserSessions, which knows the tokens by the list only, reaches every
\* token that a client held when it began, that no other request carries and
\* that has not lost its entry, once no other revocation has it still to delete.
WipeCoversAll ==
  \A p \in Wipes :
    Succeeded(p) =>
    \A t \in before[p] \ adrift :
      /\ Unshared(sid[t]) /\ (\A q \in Ops : arg[q] # t)
      /\ (\A w \in Wipes : t \notin doomed[w])
      => ~Accepted(t)

\* A usable token that no request carries can be found by a revocation: it has
\* its entry in the list, or a revocation has that entry in hand, unless the
\* entry was evicted, trimmed, not written or taken by a revocation that failed.
UsableTokensListed ==
  \A t \in issued \ adrift :
    /\ Accepted(t)
    /\ Unshared(sid[t]) /\ (\A q \in Ops : arg[q] # t)
    => \/ t \in TokensOf(list)
       \/ \E w \in Wipes : pc[w] = "wipe" /\ t \in TokensOf(seen[w])

\* A session has one entry in the list, through all its rotations, also when
\* two tabs rotate the same token and when a section fails.
OneEntryPerSession ==
  \A i, j \in DOMAIN list : list[i].sid = list[j].sid => i = j
=============================================================================
