------------------------------ MODULE ListEvents ------------------------------
(***************************************************************************)
(* Events of shopping lists: services/list_sync.py and stream_list_events  *)
(* of api/routers/lists.py.                                                *)
(*                                                                         *)
(* Every handler that writes a list publishes a hint afterwards, by NOTIFY *)
(* on one channel for all lists.  A stream follows one list: it connects,  *)
(* says so, and passes on the hints of its list, whereupon its client      *)
(* loads the list again.  A thread waits for the connection to become      *)
(* readable; what one poll reads is handed out one by one, and what is     *)
(* left stays in connection.notifies until the connection is readable      *)
(* once more.                                                              *)
(***************************************************************************)
EXTENDS Naturals, Sequences, SequencesExt

CONSTANTS
  Lists,       \* shopping lists
  Followed,    \* the list of the stream
  MaxChanges   \* bound: changes of one list

ASSUME EventsAssumption == Followed \in Lists /\ MaxChanges \in Nat

VARIABLES
  version,   \* how often each list was written
  unsent,    \* writes of a list that are not published yet
  stream,    \* how far the stream is
  socket,    \* hints that the connection has not read: the lists they name
  notifies,  \* connection.notifies: read, not handed out
  loaded,    \* the version of the list that the client has loaded last
  outdated,  \* the client was told to load the list, and has not done so
  silent     \* history: a request ended before it published

eventVars == <<version, unsent, stream, socket, notifies, loaded, outdated,
               silent>>
client == <<loaded, outdated>>
lists == <<version, unsent, silent>>


EventsInit ==
  /\ version = [l \in Lists |-> 0]
  /\ unsent = [l \in Lists |-> 0]
  /\ stream = "closed"
  /\ socket = <<>> /\ notifies = <<>>
  /\ loaded = 0 /\ outdated = TRUE
  /\ silent = FALSE

-----------------------------------------------------------------------------
(* The handlers of lists.py: first the write, then the hint.               *)
WriteList(l) ==
  /\ version[l] < MaxChanges
  /\ version' = [version EXCEPT ![l] = @ + 1]
  /\ unsent' = [unsent EXCEPT ![l] = @ + 1]
  /\ UNCHANGED <<stream, socket, notifies, client, silent>>

(* publish_list_sync_event: a listening connection gets every hint.        *)
PublishEvent(l) ==
  /\ unsent[l] > 0
  /\ IF stream \in {"listening", "open"}
     THEN socket' = Append(socket, l)
     ELSE UNCHANGED socket
  /\ unsent' = [unsent EXCEPT ![l] = @ - 1]
  /\ UNCHANGED <<version, stream, notifies, client, silent>>

(* The request ends before it publishes.                                   *)
PublisherDies(l) ==
  /\ unsent[l] > 0
  /\ silent' = (silent \/ l = Followed)
  /\ unsent' = [unsent EXCEPT ![l] = @ - 1]
  /\ UNCHANGED <<version, stream, socket, notifies, client>>

-----------------------------------------------------------------------------
(* Mutant of Listen: the client is told before LISTEN.                     *)
ConnectBeforeListen ==
  \/ stream = "closed" /\ stream' = "connected" /\ outdated' = TRUE
     /\ UNCHANGED <<lists, socket, notifies, loaded>>
  \/ stream = "connected" /\ stream' = "open"
     /\ UNCHANGED <<lists, socket, notifies, client>>

(* stream_list_events: connect_listener ...                                *)
Listen ==
  /\ stream = "closed"
  /\ stream' = "listening"
  /\ UNCHANGED <<lists, socket, notifies, client>>

(* ... and the first keepalive, "connected", at which the client loads.    *)
Connected ==
  /\ stream = "listening"
  /\ stream' = "open"
  /\ outdated' = TRUE
  /\ UNCHANGED <<lists, socket, notifies, loaded>>

(* wait_for_list_sync_event: the connection is readable, is polled, and    *)
(* the oldest hint is handed out; hints of other lists are passed over.    *)
(* (A timeout sends a keepalive and leaves connection.notifies alone.)     *)
WaitForEvent ==
  /\ stream = "open"
  /\ socket # <<>>
  /\ LET read == notifies \o socket
     IN /\ notifies' = Tail(read)
        /\ socket' = <<>>
        /\ outdated' = (outdated \/ Head(read) = Followed)
  /\ UNCHANGED <<lists, stream, loaded>>

Disconnect ==
  /\ stream # "closed"
  /\ stream' = "closed"
  /\ socket' = <<>> /\ notifies' = <<>>
  /\ UNCHANGED <<lists, client>>

(* The client: GET /lists/{list_id}, when it was told to or by itself.     *)
Load ==
  /\ loaded' = version[Followed]
  /\ outdated' = FALSE
  /\ UNCHANGED <<lists, stream, socket, notifies>>

EventsNext ==
  \/ \E l \in Lists : WriteList(l) \/ PublishEvent(l) \/ PublisherDies(l)
  \/ Listen \/ Connected \/ WaitForEvent \/ Disconnect \/ Load

EventsSpec == EventsInit /\ [][EventsNext]_eventVars

-----------------------------------------------------------------------------
(* docs/flows.md:94, "entrambi vedono la lista in tempo reale": a client   *)
(* that loads the list whenever it is told to has the current one, unless  *)
(* a hint still waits in the connection or was never published.            *)
FollowsTheList ==
  /\ stream = "open" /\ ~outdated /\ ~silent
  /\ unsent[Followed] = 0
  /\ Followed \notin ToSet(notifies \o socket)
  => loaded = version[Followed]
=============================================================================
