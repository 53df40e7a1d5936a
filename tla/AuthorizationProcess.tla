------------------------ MODULE AuthorizationProcess ------------------------
(***************************************************************************)
(* The clients of a consumer and the keychains of a producer:              *)
(* packages/authorization-process/src/services/authorizationService.ts,    *)
(* with packages/client-purpose-updater, which has a purpose that was      *)
(* archived removed from every client.                                     *)
(*                                                                         *)
(* A client has users, keys and purposes; a producer keychain has users,   *)
(* keys and e-services.  Both are called holders here, and one purpose,    *)
(* and one e-service, stand for what a holder is linked to.                *)
(*                                                                         *)
(* A request reads the read model, in which every holder, and the purpose, *)
(* lags behind its events on its own, and appends its events for the       *)
(* version it read (EventStore).  The requests below are one step each;    *)
(* removePurposeFromClients, whose events are appended one by one from a   *)
(* list read at the beginning, is several.  What a request may also refuse *)
(* for reasons outside this model (the organization that asks, its user's  *)
(* privileges at SelfCare, the format of a key) is not said: a request     *)
(* that is refused changes nothing.                                        *)
(***************************************************************************)
EXTENDS Integers, Sequences, FiniteSets, SequencesExt

CONSTANTS
  Clients, Keychains,  \* the holders, each identifier used once
  Users,      \* the users of the organization
  Kids,       \* key identifiers: two holders may be given the same key
  MaxKeys,    \* MAX_KEYS_PER_CLIENT and MAX_KEYS_PER_PRODUCER_KEYCHAIN
  Existing,   \* the holders created before, whose members are all the users
  MaxRequests, \* bound on the requests that store something
  MaxFailures \* bound on the calls of removePurposeFromClients that break off

Holders == Clients \cup Keychains

ASSUME ConstantsAssumption ==
  /\ Clients \cap Keychains = {}
  /\ MaxKeys \in Nat /\ MaxRequests \in Nat /\ MaxFailures \in Nat
  /\ Existing \subseteq Holders
  /\ IsFiniteSet(Clients) /\ IsFiniteSet(Users) /\ IsFiniteSet(Kids)

VARIABLES
  holder,    \* the holders, as their event streams define them
  pending,   \* each holder's events the read model does not show yet
  shown,     \* the holders in the read model
  purpose, purposeShown,  \* the purpose, and the purpose in the read model
  agreed,    \* does the read model show an agreement in force for the purpose?
  archival,  \* does client-purpose-updater have a PurposeArchived to handle?
  removing,  \* removePurposeFromClients: idle, or the clients still to update
  failures,  \* how many of its calls broke off
  late,      \* the clients linked to the archived purpose unseen by its last list
  requests   \* how many requests stored something

vars == <<holder, pending, shown, purpose, purposeShown, agreed, archival,
          removing, failures, late, requests>>
surroundings == <<purpose, purposeShown, agreed, archival, removing, failures>>

Key == [kid: Kids, user: Users]
Holder == [version: Nat, present: BOOLEAN, users: SUBSET Users,
           keys: SUBSET Key, linked: BOOLEAN]

Absent == [version |-> 0, present |-> FALSE, users |-> {}, keys |-> {}, linked |-> FALSE]
Created(members) ==
  [version |-> 1, present |-> TRUE, users |-> members, keys |-> {}, linked |-> FALSE]

EventType == {"Added", "Deleted", "UserAdded", "UserDeleted", "KeyAdded",
              "KeyDeleted", "LinkAdded", "LinkRemoved"}

\* An event names what it is about and carries the holder as it is afterwards.
Event(type, item, after) == [type |-> type, item |-> item, after |-> after]
None == "none"

Idle == [running |-> FALSE, todo |-> <<>>]

-----------------------------------------------------------------------------
(* The read model and the event store. *)

\* The holder in the read model, with the changes a request makes to it.
Successor(h) == [shown[h] EXCEPT !.version = @ + 1]

\* createEvents: the batch is stored if the version read is the current one.
Store(h, readVersion, events) ==
  /\ readVersion = holder[h].version
  /\ holder' = [holder EXCEPT ![h] = Last(events).after]
  /\ pending' = [pending EXCEPT ![h] = @ \o events]
  /\ UNCHANGED shown

(* A request on holder h, read at that version, that stores the events.      *)
Request(h, readVersion, events) ==
  /\ requests < MaxRequests
  /\ Store(h, readVersion, events)
  /\ requests' = requests + 1
  /\ UNCHANGED surroundings

(* A request that finds the holder in the read model and stores one event.   *)
Update(h, type, item, after) ==
  /\ shown[h].present
  /\ Request(h, shown[h].version, <<Event(type, item, after)>>)

(* client-readmodel-writer and producer-keychain-readmodel-writer *)
Show(h) ==
  /\ pending[h] # <<>>
  /\ shown' = [shown EXCEPT ![h] = Head(pending[h]).after]
  /\ pending' = [pending EXCEPT ![h] = Tail(@)]
  /\ UNCHANGED <<holder, late, requests, surroundings>>

-----------------------------------------------------------------------------
(* Requests on clients and keychains alike. *)

Create(h, members) ==
  /\ holder[h].version = 0
  /\ Request(h, 0, <<Event("Added", None, Created(members))>>)
  /\ UNCHANGED late

Delete(h) ==
  /\ Update(h, "Deleted", None, [Absent EXCEPT !.version = shown[h].version + 1])
  /\ late' = late \ {h}

RemoveUser(h, user) ==
  /\ user \in shown[h].users
  /\ Update(h, "UserDeleted", user, [Successor(h) EXCEPT !.users = @ \ {user}])
  /\ UNCHANGED late

\* Slip: each event carries the users read and the one it is about.
UserAddedEventsApart(h, order) ==
  [i \in DOMAIN order |->
     Event("UserAdded", order[i],
           [shown[h] EXCEPT !.version = @ + i, !.users = @ \cup {order[i]}])]

\* One event per user, for the version the stream has when the events before
\* it are stored.  They share one array of users, and are serialised when the
\* last user was pushed into it: each carries all the users of the batch.
UserAddedEvents(h, order) ==
  [i \in DOMAIN order |->
     Event("UserAdded", order[i],
           [shown[h] EXCEPT !.version = @ + i,
                            !.users = @ \cup {order[j] : j \in DOMAIN order}])]

AddUsers(h, users) ==
  /\ shown[h].present
  /\ users # {} /\ users \cap shown[h].users = {}
  /\ \E order \in SetToSeqs(users) :
       Request(h, shown[h].version, UserAddedEvents(h, order))
  /\ UNCHANGED late

\* assertKeyDoesNotAlreadyExist: no client and no keychain shows the key.
KeyExists(kid) == \E h \in Holders : \E key \in shown[h].keys : key.kid = kid

\* Slip: the threshold is compared with the keys there are, without the new one.
BelowThresholdWithoutNew(keys) == Cardinality(keys) <= MaxKeys

\* assertClientKeysCountIsBelowThreshold, with the key that is to be added.
BelowThreshold(keys) == Cardinality(keys) + 1 <= MaxKeys

CreateKey(h, kid, user) ==
  /\ BelowThreshold(shown[h].keys)
  /\ user \in shown[h].users
  /\ ~KeyExists(kid)
  /\ Update(h, "KeyAdded", kid,
             [Successor(h) EXCEPT !.keys = @ \cup {[kid |-> kid, user |-> user]}])
  /\ UNCHANGED late

(* A user with the security role deletes only keys of its own, and only as a *)
(* member; an administrator deletes any.                                     *)
DeleteKey(h, kid, user, security) ==
  /\ \E key \in shown[h].keys :
       /\ key.kid = kid
       /\ security => user \in shown[h].users /\ key.user = user
  /\ Update(h, "KeyDeleted", kid,
             [Successor(h) EXCEPT !.keys = {key \in @ : key.kid # kid}])
  /\ UNCHANGED late

-----------------------------------------------------------------------------
(* authorizationService.ts: clients *)

CreateClient(c) == \E members \in SUBSET Users : Create(c, members)
DeleteClient(c) == Delete(c)
AddClientUsers(c) == \E users \in SUBSET Users : AddUsers(c, users)
RemoveClientUser(c) == \E user \in Users : RemoveUser(c, user)
CreateKeys(c) == \E kid \in Kids, user \in Users : CreateKey(c, kid, user)
DeleteClientKeyById(c) ==
  \E kid \in Kids, user \in Users, security \in BOOLEAN : DeleteKey(c, kid, user, security)

AddClientPurpose(c) ==
  /\ ~shown[c].linked
  /\ purposeShown = "usable" /\ agreed
  /\ Update(c, "LinkAdded", None, [Successor(c) EXCEPT !.linked = TRUE])
  /\ late' = IF purpose = "archived" THEN late \cup {c} ELSE late

(* A purpose the client does not have is removed all the same.               *)
RemoveClientPurpose(c) ==
  /\ Update(c, "LinkRemoved", None, [Successor(c) EXCEPT !.linked = FALSE])
  /\ late' = late \ {c}

-----------------------------------------------------------------------------
(* authorizationService.ts: producer keychains *)

CreateProducerKeychain(k) == \E members \in SUBSET Users : Create(k, members)
DeleteProducerKeychain(k) == Delete(k)
AddProducerKeychainUsers(k) == \E users \in SUBSET Users : AddUsers(k, users)
RemoveProducerKeychainUser(k) == \E user \in Users : RemoveUser(k, user)
CreateProducerKeychainKey(k) ==
  \E kid \in Kids, user \in Users : CreateKey(k, kid, user)
RemoveProducerKeychainKeyById(k) ==
  \E kid \in Kids, user \in Users, security \in BOOLEAN : DeleteKey(k, kid, user, security)

AddProducerKeychainEService(k) ==
  /\ ~shown[k].linked
  /\ Update(k, "LinkAdded", None, [Successor(k) EXCEPT !.linked = TRUE])
  /\ UNCHANGED late

RemoveProducerKeychainEService(k) ==
  /\ shown[k].linked
  /\ Update(k, "LinkRemoved", None, [Successor(k) EXCEPT !.linked = FALSE])
  /\ UNCHANGED late

-----------------------------------------------------------------------------
(* client-purpose-updater and removePurposeFromClients.  The consumer calls  *)
(* the service for a PurposeArchived event and commits the event's offset    *)
(* when the call returns; a call that fails leaves the event to be handled   *)
(* again, from a list read anew.                                             *)

\* getClientsRelatedToPurpose
GetClientsRelatedToPurpose ==
  /\ archival /\ ~removing.running
  /\ LET related == {c \in Clients : shown[c].present /\ shown[c].linked} IN
       /\ \E order \in SetToSeqs(related) :
            removing' = [running |-> TRUE,
                         todo |-> [i \in DOMAIN order |->
                                     [client |-> order[i], read |-> shown[order[i]]]]]
       /\ late' = {c \in Clients : holder[c].linked /\ c \notin related}
  /\ UNCHANGED <<holder, pending, shown, purpose, purposeShown, agreed, archival,
                 failures, requests>>

\* One turn of the loop: the client as it was read, without the purpose.
RemoveFromNextClient ==
  /\ removing.running /\ removing.todo # <<>>
  /\ LET client == Head(removing.todo).client
         read == Head(removing.todo).read
     IN /\ Store(client, read.version,
              <<Event("LinkRemoved", None,
                      [read EXCEPT !.version = @ + 1, !.linked = FALSE])>>)
        /\ late' = late \ {client}
  /\ removing' = [removing EXCEPT !.todo = Tail(@)]
  /\ UNCHANGED <<purpose, purposeShown, agreed, archival, failures, requests>>

\* Slip: the loop goes on with the next client when one could not be updated.
SkipConflictingClient ==
  /\ removing.running /\ removing.todo # <<>>
  /\ Head(removing.todo).read.version # holder[Head(removing.todo).client].version
  /\ removing' = [removing EXCEPT !.todo = Tail(@)]
  /\ UNCHANGED <<holder, pending, shown, purpose, purposeShown, agreed, archival,
                 failures, late, requests>>

\* Slip: the call is repeated with the clients as they were read.
RetryWithSameList ==
  /\ removing.running /\ removing.todo # <<>>
  /\ Head(removing.todo).read.version # holder[Head(removing.todo).client].version
  /\ UNCHANGED vars

\* The next client is at another version by now: the call fails.
ConflictOnNextClient ==
  /\ removing.running /\ removing.todo # <<>>
  /\ Head(removing.todo).read.version # holder[Head(removing.todo).client].version
  /\ removing' = Idle
  /\ UNCHANGED <<holder, pending, shown, purpose, purposeShown, agreed, archival,
                 failures, late, requests>>

\* The call fails for another reason, or one of the two processes stops.
BreakOff ==
  /\ removing.running /\ failures < MaxFailures
  /\ removing' = Idle
  /\ failures' = failures + 1
  /\ UNCHANGED <<holder, pending, shown, purpose, purposeShown, agreed, archival,
                 late, requests>>

\* The call returns and the event's offset is committed.
FinishRemoval ==
  /\ removing.running /\ removing.todo = <<>>
  /\ removing' = Idle
  /\ archival' = FALSE
  /\ UNCHANGED <<holder, pending, shown, purpose, purposeShown, agreed, failures,
                 late, requests>>

-----------------------------------------------------------------------------
(* What changes around: the purpose (PurposeProcess) and the agreement.      *)

\* The purpose has a version that is active or suspended.
ActivatePurpose ==
  /\ purpose = "draft"
  /\ purpose' = "usable"
  /\ UNCHANGED <<holder, pending, shown, purposeShown, agreed, archival, removing,
                 failures, late, requests>>

ArchivePurpose ==
  /\ purpose = "usable"
  /\ purpose' = "archived"
  /\ archival' = TRUE
  /\ UNCHANGED <<holder, pending, shown, purposeShown, agreed, removing, failures,
                 late, requests>>

\* purpose-readmodel-writer
ShowPurpose ==
  /\ purposeShown # purpose
  /\ purposeShown' = purpose
  /\ UNCHANGED <<holder, pending, shown, purpose, agreed, archival, removing,
                 failures, late, requests>>

ChangeAgreement ==
  /\ agreed' = ~agreed
  /\ UNCHANGED <<holder, pending, shown, purpose, purposeShown, archival, removing,
                 failures, late, requests>>

-----------------------------------------------------------------------------
Init ==
  /\ holder = [h \in Holders |-> IF h \in Existing THEN Created(Users) ELSE Absent]
  /\ pending = [h \in Holders |-> <<>>]
  /\ shown = holder
  /\ purpose \in {"draft", "usable"} /\ purposeShown = purpose
  /\ agreed \in BOOLEAN
  /\ archival = FALSE /\ removing = Idle /\ failures = 0
  /\ late = {}
  /\ requests = 0

ClientRequest(c) ==
  \/ CreateClient(c) \/ DeleteClient(c) \/ AddClientUsers(c) \/ RemoveClientUser(c)
  \/ CreateKeys(c) \/ DeleteClientKeyById(c)
  \/ AddClientPurpose(c) \/ RemoveClientPurpose(c)

KeychainRequest(k) ==
  \/ CreateProducerKeychain(k) \/ DeleteProducerKeychain(k)
  \/ AddProducerKeychainUsers(k) \/ RemoveProducerKeychainUser(k)
  \/ CreateProducerKeychainKey(k) \/ RemoveProducerKeychainKeyById(k)
  \/ AddProducerKeychainEService(k) \/ RemoveProducerKeychainEService(k)

ClientPurposeUpdater ==
  \/ GetClientsRelatedToPurpose \/ RemoveFromNextClient \/ ConflictOnNextClient
  \/ FinishRemoval

ReadModelWriters == \E h \in Holders : Show(h)

Next ==
  \/ \E c \in Clients : ClientRequest(c)
  \/ \E k \in Keychains : KeychainRequest(k)
  \/ ReadModelWriters \/ ShowPurpose
  \/ ClientPurposeUpdater \/ BreakOff
  \/ ActivatePurpose \/ ArchivePurpose \/ ChangeAgreement

Spec == Init /\ [][Next]_vars

\* The consumers keep polling and retry a message whose handling failed.
FairSpec == Spec /\ WF_vars(ReadModelWriters) /\ WF_vars(ClientPurposeUpdater)

-----------------------------------------------------------------------------
(* Type invariant.                                                           *)
TypeOK ==
  /\ holder \in [Holders -> Holder] /\ shown \in [Holders -> Holder]
  /\ pending \in [Holders -> Seq([type: EventType, item: Users \cup Kids \cup {None},
                                  after: Holder])]
  /\ purpose \in {"draft", "usable", "archived"}
  /\ purposeShown \in {"draft", "usable", "archived"}
  /\ agreed \in BOOLEAN /\ archival \in BOOLEAN
  /\ removing \in [running: BOOLEAN, todo: Seq([client: Clients, read: Holder])]
  /\ failures \in Nat /\ late \subseteq Clients /\ requests \in Nat

\* What a reader of the events makes of an event, given what came before it.
Tells(before, event) ==
  LET after == event.after IN
  /\ after.version = before.version + 1
  /\ event.type # "Added" => before.present
  /\ event.type \notin {"Added", "Deleted"} =>
       /\ event.type = "UserAdded" =>
            before.users \cup {event.item} \subseteq after.users
       /\ event.type = "UserDeleted" => after.users = before.users \ {event.item}
       /\ event.type \notin {"UserAdded", "UserDeleted"} => after.users = before.users
       /\ event.type = "KeyAdded" =>
            /\ \A key \in before.keys : key.kid # event.item
            /\ {key \in after.keys : key.kid # event.item} = before.keys
       /\ event.type = "KeyDeleted" =>
            after.keys = {key \in before.keys : key.kid # event.item}
       /\ event.type \notin {"KeyAdded", "KeyDeleted"} => after.keys = before.keys
       /\ after.linked = IF event.type = "LinkAdded" THEN TRUE
                         ELSE IF event.type = "LinkRemoved" THEN FALSE ELSE before.linked

\* The i-th of the events and those after it up to the j-th add users, and
\* carry the same ones: they are of one batch.
OneBatch(events, i, j) ==
  \A k \in i..j :
    events[k].type = "UserAdded" /\ events[k].after.users = events[i].after.users

\* A user the i-th event adds is named by it or later in its batch.
Named(before, events, i) ==
  events[i].type = "UserAdded" =>
    \A user \in events[i].after.users \ before.users :
      \E j \in i..Len(events) : events[j].item = user /\ OneBatch(events, i, j)

(* Consumers of these events take some of them by what they name and others  *)
(* by the whole holder they carry, and at the end of each batch both ways    *)
(* come to the same: an event changes of the holder before it only what it   *)
(* names, but for the users of a batch, which all of its events carry: they  *)
(* lose no user, and each user they add is named before the batch ends.      *)
(* This holds also for an event made from a list read long before, and       *)
(* nothing follows a holder's deletion.                                      *)
EventsTellTheChange ==
  \A h \in Holders : \A i \in DOMAIN pending[h] :
    LET before == IF i = 1 THEN shown[h] ELSE pending[h][i - 1].after IN
    Tells(before, pending[h][i]) /\ Named(before, pending[h], i)

(* No client and no keychain ever has more keys than its threshold, although *)
(* the keys are counted in the read model.                                   *)
KeysWithinThreshold == \A h \in Holders : Cardinality(holder[h].keys) <= MaxKeys

(* Once the archived purpose was handled no client is linked to it, however  *)
(* often the calls broke off half way: but for those that were linked when   *)
(* the read model still showed the purpose usable, or not yet the link.      *)
UnlinkedOnceHandled ==
  purpose = "archived" /\ ~archival =>
    \A c \in Clients : holder[c].linked => c \in late

(* The archived purpose is handled in the end, although each attempt fails   *)
(* as long as the read model lags behind one of the clients listed.          *)
ArchivalHandled == archival ~> ~archival

=============================================================================
