-------------------------- MODULE PushDevicesProofs --------------------------
(***************************************************************************)
(* Theorems about PushDevices, for any number of users and devices.        *)
(*                                                                         *)
(* Neither property is inductive.  A row is written by the second call of  *)
(* a request, so that its owner depends on what the first call has cleared *)
(* (ClaimIsFree); and a sender deletes rows by device long after it has    *)
(* pushed, so that what it deletes must be gone for good (StaleIsGone).    *)
(***************************************************************************)
EXTENDS PushDevices, TLAPS

Subscription == Accounts \X Devices

(* The types of the variables.                                             *)
DevicesTyped ==
  /\ account \in [Devices -> Accounts \cup {NoAccount}]
  /\ gone \subseteq Devices
  /\ subscriptions \subseteq Subscription
  /\ subscribing \subseteq Subscription
  /\ sender \in [user : Accounts \cup {NoAccount}, todo : SUBSET Devices,
                 stale : SUBSET Devices]
  /\ silenced \subseteq Devices

(* A request that has deleted the rows of others for its device finds none *)
(* of them when it writes its own, and nobody is subscribed there yet.     *)
ClaimIsFree ==
  \A s \in subscribing :
    /\ subscribing = {s}
    /\ account[s[2]] = NoAccount
    /\ \A t \in subscriptions : s[2] = t[2] => s = t

(* What a sender is about to delete was dropped for good.                  *)
StaleIsGone == sender.stale \subseteq gone

DevicesInv ==
  DevicesTyped /\ ClaimIsFree /\ StaleIsGone /\ OneOwnerPerDevice /\ LiveDevicesKeepRows

USE DevicesAssumption DEF AtDesk, NotSending, Subscription

-----------------------------------------------------------------------------
(* No row for a device is left but the caller's own.                       *)
LEMMA ClaimDeviceStep ==
  ASSUME NEW u \in Accounts, NEW d \in Devices, DevicesInv, ClaimDevice(u, d)
  PROVE  DevicesInv'
<1> USE DEF DevicesInv, ClaimDevice
<1>1. DevicesTyped'
  BY DEF DevicesTyped
<1>2. ClaimIsFree'
  BY DEF DevicesTyped, ClaimIsFree
<1>3. StaleIsGone'
  BY DEF StaleIsGone
<1>4. OneOwnerPerDevice'
  BY DEF DevicesTyped, OneOwnerPerDevice
<1>5. LiveDevicesKeepRows'
  BY DEF DevicesTyped, LiveDevicesKeepRows
<1>6. QED
  BY <1>1, <1>2, <1>3, <1>4, <1>5

(* The row that is written is the only one of its device.                  *)
LEMMA UpsertStep ==
  ASSUME DevicesInv, UpsertSubscription
  PROVE  DevicesInv'
<1> USE DEF DevicesInv, UpsertSubscription
<1>1. PICK s \in subscribing : /\ account' = [account EXCEPT ![s[2]] = s[1]]
                               /\ silenced' = silenced \ {s[2]}
  OBVIOUS
<1>2. subscribing = {s} /\ s \in Subscription /\ s = <<s[1], s[2]>>
  BY DEF ClaimIsFree, DevicesTyped
<1>3. DevicesTyped'
  BY <1>1, <1>2 DEF DevicesTyped
<1>4. ClaimIsFree' /\ StaleIsGone'
  BY DEF ClaimIsFree, StaleIsGone
<1>5. OneOwnerPerDevice'
  BY <1>1, <1>2 DEF DevicesTyped, ClaimIsFree, OneOwnerPerDevice
<1>6. LiveDevicesKeepRows'
  BY <1>1, <1>2 DEF DevicesTyped, LiveDevicesKeepRows
<1>7. QED
  BY <1>3, <1>4, <1>5, <1>6

(* A user who leaves one device, or all, takes only rows of that user.     *)
LEMMA LeaveStep ==
  ASSUME NEW d \in Devices, DevicesInv, Unsubscribe(d) \/ SignOut(d)
  PROVE  DevicesInv'
<1> USE DEF DevicesInv, Unsubscribe, SignOut
<1>1. DevicesTyped'
  BY DEF DevicesTyped
<1>2. ClaimIsFree' /\ StaleIsGone'
  BY DEF DevicesTyped, ClaimIsFree, StaleIsGone
<1>3. OneOwnerPerDevice'
  BY DEF DevicesTyped, OneOwnerPerDevice
<1>4. LiveDevicesKeepRows'
  BY DEF DevicesTyped, LiveDevicesKeepRows
<1>5. QED
  BY <1>1, <1>2, <1>3, <1>4

(* A sender notes only devices that are gone, and deletes only their rows. *)
LEMMA SenderStep ==
  ASSUME NEW d \in Devices, DevicesInv, PushTo(d) \/ DeleteStale(d)
  PROVE  DevicesInv'
<1> USE DEF DevicesInv
<1>1. CASE PushTo(d)
  <2>1. PICK dead \in SUBSET ({d} \cap gone) :
          sender' = [sender EXCEPT !.todo = @ \ {d}, !.stale = @ \cup dead]
    BY <1>1 DEF PushTo
  <2>2. UNCHANGED <<account, gone, subscriptions, subscribing, silenced>>
    BY <1>1 DEF PushTo
  <2>3. DevicesTyped' /\ StaleIsGone'
    BY <2>1, <2>2 DEF DevicesTyped, StaleIsGone
  <2>4. ClaimIsFree' /\ OneOwnerPerDevice' /\ LiveDevicesKeepRows'
    BY <2>2 DEF ClaimIsFree, OneOwnerPerDevice, LiveDevicesKeepRows
  <2>5. QED
    BY <2>3, <2>4
<1>2. CASE DeleteStale(d)
  <2> USE <1>2 DEF DeleteStale
  <2>1. subscriptions' \subseteq subscriptions
        /\ \A s \in subscriptions \ subscriptions' : s[2] \in gone
    BY DEF StaleIsGone
  <2>2. DevicesTyped' /\ StaleIsGone'
    BY <2>1 DEF DevicesTyped, StaleIsGone
  <2>3. ClaimIsFree' /\ OneOwnerPerDevice'
    BY <2>1 DEF ClaimIsFree, OneOwnerPerDevice
  <2>4. LiveDevicesKeepRows'
    BY <2>1 DEF DevicesTyped, LiveDevicesKeepRows
  <2>5. QED
    BY <2>2, <2>3, <2>4
<1>3. QED
  BY <1>1, <1>2

(* The other steps write no row.                                           *)
LEMMA QuietStep ==
  ASSUME DevicesInv,
         \/ SubscriptionFails \/ EndSending
         \/ \E d \in Devices : DropDevice(d)
         \/ \E u \in Accounts : LoadSubscriptions(u)
  PROVE  DevicesInv'
<1> USE DEF DevicesInv, SubscriptionFails, EndSending, DropDevice, LoadSubscriptions
<1>1. DevicesTyped'
  <2>1. CASE \E u \in Accounts : LoadSubscriptions(u)
    <3>1. PICK u \in Accounts : LoadSubscriptions(u)
      BY <2>1
    <3>2. {d \in Devices : <<u, d>> \in subscriptions} \in SUBSET Devices
      OBVIOUS
    <3>3. QED
      BY <3>1, <3>2 DEF DevicesTyped
  <2>2. CASE SubscriptionFails \/ EndSending \/ \E d \in Devices : DropDevice(d)
    BY <2>2 DEF DevicesTyped
  <2>3. QED
    BY <2>1, <2>2
<1>2. ClaimIsFree'
  BY DEF ClaimIsFree
<1>3. StaleIsGone'
  BY DEF StaleIsGone
<1>4. OneOwnerPerDevice' /\ LiveDevicesKeepRows'
  BY DEF OneOwnerPerDevice, LiveDevicesKeepRows
<1>5. QED
  BY <1>1, <1>2, <1>3, <1>4

-----------------------------------------------------------------------------
(* The strengthened invariant holds in every state of push.py and the      *)
(* senders of push_notify.py.                                              *)
THEOREM DevicesInvariant == DevicesSpec => []DevicesInv
<1>1. DevicesInit => DevicesInv
  BY DEF DevicesInit, DevicesInv, DevicesTyped, ClaimIsFree, StaleIsGone,
         OneOwnerPerDevice, LiveDevicesKeepRows
<1>2. DevicesInv /\ [DevicesNext]_deviceVars => DevicesInv'
  <2>1. CASE UNCHANGED deviceVars
    BY <2>1 DEF deviceVars, DevicesInv, DevicesTyped, ClaimIsFree, StaleIsGone,
                OneOwnerPerDevice, LiveDevicesKeepRows
  <2>2. CASE DevicesNext
    BY <2>2, ClaimDeviceStep, UpsertStep, LeaveStep, SenderStep, QuietStep
       DEF DevicesNext
  <2>3. QED
    BY <2>1, <2>2
<1>3. QED
  BY <1>1, <1>2, PTL DEF DevicesSpec

(* push.py: however requests, senders and devices interleave, no two users *)
(* have a row for one device, and none keeps a row for a device on which   *)
(* another has subscribed.                                                 *)
THEOREM DevicesHaveOneOwner == DevicesSpec => []OneOwnerPerDevice
<1>1. DevicesInv => OneOwnerPerDevice
  BY DEF DevicesInv
<1>2. QED
  BY <1>1, DevicesInvariant, PTL

(* push_notify.py: a sender that cleans up after an old push takes no row  *)
(* of a device that still works, whoever has subscribed on it meanwhile.   *)
THEOREM WorkingDevicesKeepRows == DevicesSpec => []LiveDevicesKeepRows
<1>1. DevicesInv => LiveDevicesKeepRows
  BY DEF DevicesInv
<1>2. QED
  BY <1>1, DevicesInvariant, PTL
=============================================================================
