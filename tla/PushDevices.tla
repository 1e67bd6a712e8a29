------------------------------ MODULE PushDevices ------------------------------
(***************************************************************************)
(* Devices that get push notifications: api/routers/push.py and the sender *)
(* of services/push_notify.py.                                             *)
(*                                                                         *)
(* A device is an endpoint of Web Push or a token of FCM.  It subscribes   *)
(* for the account that is signed in on it; the sender loads the rows of a *)
(* user, pushes to one after the other, and deletes those that the push    *)
(* service reports as gone.  Senders are threads beside the requests.      *)
(***************************************************************************)
EXTENDS Naturals

CONSTANTS
  Accounts,  \* users
  Devices,   \* endpoints and tokens
  NoAccount  \* nobody is signed in: any value outside Accounts

ASSUME DevicesAssumption == NoAccount \notin Accounts

VARIABLES
  account,       \* device -> the user signed in on it, who has subscribed
  gone,          \* devices that the push service knows no more
  subscriptions, \* push_subscriptions: pairs of a user and a device
  subscribing,   \* the request to subscribe under way: a set of such pairs
  sender,        \* what the sender does
  silenced       \* history: devices whose row went without their doing

deviceVars == <<account, gone, subscriptions, subscribing, sender, silenced>>

AtDesk == subscribing = {}
NotSending == [user |-> NoAccount, todo |-> {}, stale |-> {}]

DevicesInit ==
  /\ account = [d \in Devices |-> NoAccount]
  /\ gone = {}
  /\ subscriptions = {}
  /\ subscribing = {}
  /\ sender = NotSending
  /\ silenced = {}

-----------------------------------------------------------------------------
(* Mutant of ClaimDevice: the rows of other users are left alone.          *)
ClaimNothing(u, d) ==
  /\ AtDesk
  /\ d \notin gone
  /\ account' = [account EXCEPT ![d] = NoAccount]
  /\ subscribing' = {<<u, d>>}
  /\ UNCHANGED <<gone, subscriptions, sender, silenced>>

(* subscribe and subscribe_native: somebody signs in on the device; rows   *)
(* of other users for it are deleted ...                                   *)
ClaimDevice(u, d) ==
  /\ AtDesk
  /\ d \notin gone
  /\ account' = [account EXCEPT ![d] = NoAccount]
  /\ subscriptions' = {s \in subscriptions : s[2] = d => s[1] = u}
  /\ subscribing' = {<<u, d>>}
  /\ UNCHANGED <<gone, sender, silenced>>

(* ... and its own row is written.                                         *)
UpsertSubscription ==
  /\ subscribing # {}
  /\ subscriptions' = subscriptions \cup subscribing
  /\ \E s \in subscribing :
       /\ account' = [account EXCEPT ![s[2]] = s[1]]
       /\ silenced' = silenced \ {s[2]}
  /\ subscribing' = {}
  /\ UNCHANGED <<gone, sender>>

(* The request ends in between: the device knows that it failed.           *)
SubscriptionFails ==
  /\ subscribing # {}
  /\ subscribing' = {}
  /\ UNCHANGED <<account, gone, subscriptions, sender, silenced>>

(* unsubscribe and unsubscribe_native *)
Unsubscribe(d) ==
  /\ AtDesk
  /\ account[d] # NoAccount
  /\ subscriptions' = subscriptions \ {<<account[d], d>>}
  /\ account' = [account EXCEPT ![d] = NoAccount]
  /\ UNCHANGED <<gone, subscribing, sender, silenced>>

(* delete_all_subscriptions: signing out on one device deletes the rows of *)
(* all devices of the user.                                                *)
SignOut(d) ==
  /\ AtDesk
  /\ account[d] # NoAccount
  /\ subscriptions' = {s \in subscriptions : s[1] # account[d]}
  /\ silenced' = silenced \cup {e \in Devices \ {d} : account[e] = account[d]}
  /\ account' = [account EXCEPT ![d] = NoAccount]
  /\ UNCHANGED <<gone, subscribing, sender>>

(* The browser or the application drops the endpoint for good.             *)
DropDevice(d) ==
  /\ d \notin gone
  /\ gone' = gone \cup {d}
  /\ UNCHANGED <<account, subscriptions, subscribing, sender, silenced>>

-----------------------------------------------------------------------------
(* _send_push_to_user: the rows are loaded ...                             *)
LoadSubscriptions(u) ==
  /\ sender = NotSending
  /\ \E s \in subscriptions : s[1] = u
  /\ sender' = [user |-> u, todo |-> {d \in Devices : <<u, d>> \in subscriptions},
                stale |-> {}]
  /\ UNCHANGED <<account, gone, subscriptions, subscribing, silenced>>

(* ... each device is pushed to, those that are gone are noted (other      *)
(* errors are logged) ...                                                  *)
PushTo(d) ==
  /\ d \in sender.todo
  /\ \E dead \in SUBSET ({d} \cap gone) :
       sender' = [sender EXCEPT !.todo = @ \ {d}, !.stale = @ \cup dead]
  /\ UNCHANGED <<account, gone, subscriptions, subscribing, silenced>>

(* Mutant of DeleteStale: all rows of the user are deleted.                *)
DeleteOfUser(d) ==
  /\ sender.todo = {} /\ d \in sender.stale
  /\ subscriptions' = {s \in subscriptions : s[1] # sender.user}
  /\ sender' = [sender EXCEPT !.stale = @ \ {d}]
  /\ UNCHANGED <<account, gone, subscribing, silenced>>

(* ... and deleted by device, whoever has them by now; an error is logged. *)
DeleteStale(d) ==
  /\ sender.todo = {} /\ d \in sender.stale
  /\ subscriptions' \in {subscriptions, {s \in subscriptions : s[2] # d}}
  /\ sender' = [sender EXCEPT !.stale = @ \ {d}]
  /\ UNCHANGED <<account, gone, subscribing, silenced>>

(* The push is complete, or its thread dies.                               *)
EndSending ==
  /\ sender # NotSending
  /\ sender' = NotSending
  /\ UNCHANGED <<account, gone, subscriptions, subscribing, silenced>>

DevicesNext ==
  \/ \E d \in Devices : \/ \E u \in Accounts : ClaimDevice(u, d)
                        \/ Unsubscribe(d) \/ SignOut(d) \/ DropDevice(d)
                        \/ PushTo(d) \/ DeleteStale(d)
  \/ UpsertSubscription \/ SubscriptionFails
  \/ \E u \in Accounts : LoadSubscriptions(u)
  \/ EndSending

DevicesSpec == DevicesInit /\ [][DevicesNext]_deviceVars

-----------------------------------------------------------------------------
(* push.py:55, "This prevents cross-user notification leaks when a device  *)
(* switches accounts": no two users have a row for one device, and the     *)
(* row of a device on which somebody has subscribed is not another user's. *)
OneOwnerPerDevice ==
  \A s \in subscriptions :
    /\ account[s[2]] \in {s[1], NoAccount}
    /\ \A t \in subscriptions : s[2] = t[2] => s = t

(* A device that has subscribed and that the push service knows keeps its  *)
(* row until it unsubscribes or its user signs out on some device, whatever *)
(* the senders find gone meanwhile.                                        *)
LiveDevicesKeepRows ==
  \A d \in Devices \ (gone \cup silenced) :
    account[d] # NoAccount => <<account[d], d>> \in subscriptions
=============================================================================
