----------------------- MODULE ProviderMetadataStore -----------------------
(***************************************************************************)
(* gateway/proxy.py: class ProviderMetadataStore.                          *)
(*                                                                         *)
(* What providers attach to a tool call is kept between the requests of a  *)
(* conversation, in one store shared by every client of the gateway.  An   *)
(* entry belongs to a scope, a scope to a principal; entries expire, and   *)
(* five limits bound what is kept.  Four counters say how much that is, so *)
(* that no limit is checked by walking the store.                          *)
(*                                                                         *)
(* The store is used from the event loop and from the threads of the image *)
(* workers, under one lock: a step below is one section under that lock.   *)
(* _put_many reads the clock before it waits for the lock (Prepare), so    *)
(* that its idea of the time may be old when it gets it (Put).             *)
(*                                                                         *)
(* A value is abstracted to its canonical size, and one oldest entry of    *)
(* several is chosen freely (the code takes the one inserted first).       *)
(***************************************************************************)
EXTENDS Naturals, FiniteSets, FiniteSetsExt, Functions

CONSTANTS
    Threads, Principals, Scopes, CallIds,
    PrincipalOf,                  \* scope.principal_id
    Sizes,                        \* canonical sizes of the values
    ttl, max_size, max_entry_bytes, max_bytes_per_scope,
    max_entries_per_principal, max_bytes_per_principal, max_bytes_global,
    MaxTime                       \* bound of the model: the clock

ASSUME ScopesAssumption ==
    /\ PrincipalOf \in [Scopes -> Principals]
    /\ IsFiniteSet(Scopes) /\ IsFiniteSet(CallIds) /\ IsFiniteSet(Principals)
ASSUME LimitsAssumption ==
    /\ Sizes \subseteq Nat \ {0}
    /\ {ttl, max_size, max_entry_bytes, max_bytes_per_scope, max_entries_per_principal,
        max_bytes_per_principal, max_bytes_global, MaxTime} \subseteq Nat

VARIABLES
    clock,
    store,               \* [Keys' subset -> [size, created]]
    scope_bytes, principal_entries, principal_bytes, global_bytes,
    putting              \* per thread: the prepared batch, NoBatch outside _put_many

accounts == <<scope_bytes, principal_entries, principal_bytes, global_bytes>>
vars == <<clock, store, accounts, putting>>

Keys == Scopes \X CallIds
OwnerOf(key) == PrincipalOf[key[1]]
Entries == [size : Sizes, created : 0..MaxTime]
NoBatch == [values |-> [i \in {} |-> 0]]
Values == UNION {[ids -> Sizes] : ids \in SUBSET CallIds}
Batches == [scope : Scopes, values : Values, now : 0..MaxTime]

Init ==
    /\ clock = 0
    /\ store = [k \in {} |-> 0]
    /\ scope_bytes = [s \in Scopes |-> 0]
    /\ principal_entries = [p \in Principals |-> 0]
    /\ principal_bytes = [p \in Principals |-> 0]
    /\ global_bytes = 0
    /\ putting = [t \in Threads |-> NoBatch]

Tick ==
    /\ clock < MaxTime
    /\ clock' = clock + 1
    /\ UNCHANGED <<store, accounts, putting>>

-----------------------------------------------------------------------------
(* Accounting. *)

Bytes(entries, keys) == MapThenSumSet(LAMBDA k : entries[k].size, keys)
InScope(keys, s) == {k \in keys : k[1] = s}
OfPrincipal(keys, p) == {k \in keys : OwnerOf(k) = p}

\* A counter is dropped, and then reads as 0, when it would not stay positive.
Minus(count, n) == IF count > n THEN count - n ELSE 0

Expired(now) == {k \in DOMAIN store : now > store[k].created + ttl}

\* Mutant: the entries of the principals are not counted down.
Without_uncounted(gone) ==
    [store |-> Restrict(store, DOMAIN store \ gone),
     scope |-> [s \in Scopes |-> Minus(scope_bytes[s], Bytes(store, InScope(gone, s)))],
     entries |-> principal_entries,
     principal |-> [p \in Principals |->
                        Minus(principal_bytes[p], Bytes(store, OfPrincipal(gone, p)))],
     global |-> global_bytes - Bytes(store, gone)]

\* _remove_key_locked for each of the keys: the store and its counters after it.
Without(gone) ==
    [store |-> Restrict(store, DOMAIN store \ gone),
     scope |-> [s \in Scopes |-> Minus(scope_bytes[s], Bytes(store, InScope(gone, s)))],
     entries |-> [p \in Principals |->
                        Minus(principal_entries[p], Cardinality(OfPrincipal(gone, p)))],
     principal |-> [p \in Principals |->
                        Minus(principal_bytes[p], Bytes(store, OfPrincipal(gone, p)))],
     global |-> global_bytes - Bytes(store, gone)]

\* The same with the values of a batch stored, all of them of one scope.
With(kept, scope, batch) ==
    LET owner == PrincipalOf[scope]
        bytes == Bytes(batch, DOMAIN batch)
    IN  [store |-> [k \in DOMAIN batch \cup DOMAIN kept.store |->
                        IF k \in DOMAIN batch THEN batch[k] ELSE kept.store[k]],
         scope |-> [kept.scope EXCEPT ![scope] = @ + bytes],
         entries |-> [kept.entries EXCEPT ![owner] = @ + Cardinality(DOMAIN batch)],
         principal |-> [kept.principal EXCEPT ![owner] = @ + bytes],
         global |-> kept.global + bytes]

Becomes(kept) ==
    /\ store' = kept.store
    /\ scope_bytes' = kept.scope
    /\ principal_entries' = kept.entries
    /\ principal_bytes' = kept.principal
    /\ global_bytes' = kept.global

-----------------------------------------------------------------------------
(* Operations. *)

\* inject_into_request and __len__: what expired is removed, the rest is read.
\* Reading an entry does not renew it.
inject_into_request ==
    /\ Becomes(Without(Expired(clock)))
    /\ UNCHANGED <<clock, putting>>

\* clear: the end of a request that is not part of a conversation.
clear(scope) ==
    /\ Becomes(Without(InScope(DOMAIN store, scope)))
    /\ UNCHANGED <<clock, putting>>

clear_all ==
    /\ Becomes(Without(DOMAIN store))
    /\ UNCHANGED <<clock, putting>>

\* _put_many up to the lock: cache_from_stream_event has one value, and
\* cache_from_response those of one response.  A value that is too large is
\* refused before the clock is read; the batch is then lost as a whole.
Prepare(t, scope, values) ==
    /\ putting[t] = NoBatch
    /\ DOMAIN values # {}
    /\ \A id \in DOMAIN values : values[id] <= max_entry_bytes
    /\ putting' = [putting EXCEPT ![t] = [scope |-> scope, values |-> values, now |-> clock]]
    /\ UNCHANGED <<clock, store, accounts>>

\* Mutant: the time of expiry is stored for the time of creation.
Prepared_expiry(b) ==
    [k \in {b.scope} \X DOMAIN b.values |->
        [size |-> b.values[k[2]], created |-> b.now + ttl]]

Prepared(b) ==
    [k \in {b.scope} \X DOMAIN b.values |-> [size |-> b.values[k[2]], created |-> b.now]]

\* Mutant: any principal's entry may make room.
Candidates_anyone(kept, b) == DOMAIN kept \ DOMAIN Prepared(b)

\* The entries that may make room: the principal's own, but not those replaced.
Candidates(kept, b) ==
    OfPrincipal(DOMAIN kept, PrincipalOf[b.scope]) \ DOMAIN Prepared(b)

Overflow(kept, b) ==
    Minus(Cardinality(DOMAIN kept \cup DOMAIN Prepared(b)), max_size)

Oldest(kept, candidates, n) ==
    {gone \in kSubset(n, candidates) :
        \A k \in gone, other \in candidates \ gone : kept[k].created <= kept[other].created}

\* The three limits in bytes, on the counters as they would be.
Fits(next, b) ==
    /\ next.scope[b.scope] <= max_bytes_per_scope
    /\ next.principal[PrincipalOf[b.scope]] <= max_bytes_per_principal
    /\ next.global <= max_bytes_global

\* The section of _put_many under the lock, once the expired entries are out:
\* the whole batch is stored, or it is refused and nothing else changes.
PutInto(kept, b) ==
    LET batch == Prepared(b)
        live == kept.store
        new == DOMAIN batch \ DOMAIN live
        candidates == Candidates(live, b)
        overflow == Overflow(live, b)
        expired == DOMAIN store \ DOMAIN live
    IN  IF \/ kept.entries[PrincipalOf[b.scope]] + Cardinality(new) > max_entries_per_principal
           \/ overflow > Cardinality(candidates)
        THEN Becomes(kept)
        ELSE \E gone \in Oldest(live, candidates, overflow) :
                LET replaced == DOMAIN batch \cap DOMAIN live
                    next == With(Without(expired \cup gone \cup replaced), b.scope, batch)
                IN  Becomes(IF Fits(next, b) THEN next ELSE kept)

Put(t) ==
    LET b == putting[t]
        kept == Without(Expired(b.now))
    IN  /\ b # NoBatch
        /\ PutInto(kept, b)
        /\ putting' = [putting EXCEPT ![t] = NoBatch]
        /\ UNCHANGED clock

Next ==
    \/ Tick
    \/ inject_into_request
    \/ clear_all
    \/ \E scope \in Scopes : clear(scope)
    \/ \E t \in Threads, scope \in Scopes, values \in Values : Prepare(t, scope, values)
    \/ \E t \in Threads : Put(t)

Spec == Init /\ [][Next]_vars

-----------------------------------------------------------------------------
(* Properties. *)

\* Type invariant.
TypeOK ==
    /\ clock \in 0..MaxTime
    /\ DOMAIN store \subseteq Keys
    /\ store \in [DOMAIN store -> Entries]
    /\ scope_bytes \in [Scopes -> Nat]
    /\ principal_entries \in [Principals -> Nat]
    /\ principal_bytes \in [Principals -> Nat]
    /\ global_bytes \in Nat
    /\ putting \in [Threads -> Batches \cup {NoBatch}]

\* After any sequence of puts, replacements, evictions, expiries and clears the
\* counters are what is really in the store, and the store is within each of its
\* five limits.
AccountsBalance ==
    /\ \A s \in Scopes :
            LET bytes == Bytes(store, InScope(DOMAIN store, s))
            IN  scope_bytes[s] = bytes /\ bytes <= max_bytes_per_scope
    /\ \A p \in Principals :
            LET own == OfPrincipal(DOMAIN store, p)
            IN  /\ principal_entries[p] = Cardinality(own)
                /\ Cardinality(own) <= max_entries_per_principal
                /\ principal_bytes[p] = Bytes(store, own)
                /\ Bytes(store, own) <= max_bytes_per_principal
    /\ global_bytes = Bytes(store, DOMAIN store) /\ global_bytes <= max_bytes_global
    /\ Cardinality(DOMAIN store) <= max_size

\* What a step of _put_many stored and lost.
Ends(t) == putting[t] # NoBatch /\ putting'[t] = NoBatch
StoredWhole(b) ==
    DOMAIN Prepared(b) \subseteq DOMAIN store' /\ \A k \in DOMAIN Prepared(b) :
                                                store'[k] = Prepared(b)[k]
Unchanged(k) == k \in DOMAIN store' /\ store'[k] = store[k]
IsCleared(scope) == putting' = putting /\ InScope(DOMAIN store', scope) = {}

\* An entry made room for the batch: the store is full, and no other entry of the
\* principal that could have gone is older.
MadeRoom(k, b) ==
    /\ OwnerOf(k) = PrincipalOf[b.scope]
    /\ Cardinality(DOMAIN store') = max_size
    /\ \A other \in OfPrincipal(DOMAIN store', OwnerOf(k)) \ DOMAIN Prepared(b) :
            store[k].created <= store[other].created

\* A client loses an entry only by its age, by a clear of its own scope, by a newer
\* value of the same call, or as the oldest of its own principal when the store is
\* full; no other client's request can take it away.
EntryLossIsFair ==
    \A k \in DOMAIN store :
        \/ Unchanged(k)
        \/ k \in Expired(clock)
        \/ IsCleared(k[1])
        \/ \E t \in Threads :
                /\ Ends(t) /\ StoredWhole(putting[t])
                /\ k \in DOMAIN Prepared(putting[t]) \/ MadeRoom(k, putting[t])

\* A batch is stored whole, or it is refused and costs nobody an entry that had not
\* expired.
BatchIsWhole ==
    \A t \in Threads :
        Ends(t) => \/ StoredWhole(putting[t])
                   \/ /\ DOMAIN store' \subseteq DOMAIN store
                      /\ \A k \in DOMAIN store \ Expired(clock) : Unchanged(k)

\* Both, of every step of the requests that share the store: _put_many, clear and
\* what removes the expired entries.
LossIsFair == [][EntryLossIsFair /\ BatchIsWhole]_vars
=============================================================================
