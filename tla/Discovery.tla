----------------------------- MODULE Discovery -----------------------------
(***************************************************************************)
(* How the wheel's constructor finds its device (include/fffb/hid/         *)
(* device.hxx:125-227, include/fffb/joy/wheel.hxx:97-135).                 *)
(*                                                                         *)
(* It asks macOS for the HID devices of the computer, reads who made each  *)
(* and what it is for, and goes through the list.  The player may plug     *)
(* devices in and out meanwhile; a device that is plugged in again is a    *)
(* new object to the system, so one that left does not come back here.     *)
(***************************************************************************)
EXTENDS Integers, Sequences, FiniteSets

CONSTANT Attachable   \* the HID devices there are

Id == 0 .. 65535

(* A HID device: the address of the object that stands for it, and what the *)
(* system tells of it.                                                      *)
Hid == [at : Nat, vendor : Id, product : Id, usage_page : Id, usage : Id]

ASSUME AttachableAssumption ==
    /\ Attachable \subseteq Hid
    /\ \A d, e \in Attachable : d.at # 0 /\ (d.at = e.at => d = e)

VARIABLES
    plugged,    \* the devices connected now
    stayed,     \* history: those connected ever since the listing began
    stage,      \* how far the constructor has come
    seized,     \* devices this process has opened for itself alone
    listed,     \* the manager's set of devices, then the copy of it, which
                \* keeps them alive
    devices,    \* the hid_device objects read so far
    next,       \* the device the constructor looks at
    device_,    \* the device chosen so far
    protocol_

vars == <<plugged, stayed, stage, seized, listed, devices, next, device_, protocol_>>

Stages == {"start", "opened", "reading", "read", "choosing", "done"}

Device(at, vendor, product, usage_page, usage) ==
    [at |-> at, vendor |-> vendor, product |-> product, usage_page |-> usage_page,
     usage |-> usage]

NoDevice == Device(0, 0, 0, 0, 0)

-----------------------------------------------------------------------------
(***************************************************************************)
(* The tests of the constructor's loop.  An id is ( product << 16 ) |      *)
(* vendor in the code, a pair here.                                        *)
(***************************************************************************)
Logitech_VendorID == 1133                         \* 0x046d

DeviceId(d) == <<d.product, d.vendor>>

known_wheel_device_ids == {<<49766, 1133>>,       \* 0xc266046d, G923 PS
                           <<49743, 1133>>}       \* 0xc24f046d, G29 PS4

IsKnown(d) == DeviceId(d) \in known_wheel_device_ids

HasWheelUsage(d) == d.usage = 4 /\ d.usage_page = 1

Takes(d) == HasWheelUsage(d) /\ (IsKnown(d) \/ d.vendor = Logitech_VendorID)

(* A wrong get_supported_protocol: the newer protocol for the other models. *)
get_supported_protocolByModel(d) ==
    IF IsKnown(d) THEN "logitech_classic" ELSE "logitech_hidpp"

get_supported_protocol(d) ==
    IF d.vendor = Logitech_VendorID THEN "logitech_classic" ELSE "count"

(* What the constructor of hid_device reads, one property after the other:  *)
(* 0 for each the system does not know any more, the device being gone.     *)
Readings(d) ==
    IF d \in plugged THEN {d}
    ELSE [at : {d.at}, vendor : {d.vendor, 0}, product : {d.product, 0},
          usage_page : {d.usage_page, 0}, usage : {d.usage, 0}]

-----------------------------------------------------------------------------
(* protocol_ has no initializer; the wheel is part of a global, so it is 0.  *)
Init == /\ plugged \in SUBSET Attachable
        /\ stayed = {}
        /\ stage = "start"
        /\ seized = {}
        /\ listed = {}
        /\ devices = <<>>
        /\ next = 1
        /\ device_ = NoDevice
        /\ protocol_ = "logitech_classic"

(* _create_hid_manager finds the devices and opens each for itself alone;   *)
(* it does not look at the result, any of them may refuse.                  *)
CreateManager ==
    /\ stage = "start"
    /\ stage' = "opened"
    /\ stayed' = plugged
    /\ listed' = plugged
    /\ seized' \in SUBSET plugged
    /\ UNCHANGED <<plugged, devices, next, device_, protocol_>>

(* _list_devices, up to its loop.  The manager may have noticed by then     *)
(* what was plugged in or out since.                                        *)
CopyDevices ==
    /\ stage = "opened"
    /\ stage' = "reading"
    /\ listed' \in {listed, plugged}
    /\ UNCHANGED <<plugged, stayed, seized, devices, next, device_, protocol_>>

Seen == {devices[i].at : i \in DOMAIN devices}

ReadDevice ==
    /\ stage = "reading"
    /\ \E d \in listed : /\ d.at \notin Seen
                         /\ \E reading \in Readings(d) : devices' = Append(devices, reading)
    /\ UNCHANGED <<plugged, stayed, stage, seized, listed, next, device_, protocol_>>

(* A wrong ListReturns: the copied set is released like the array. *)
ListReturnsReleased ==
    /\ stage = "reading" /\ \A d \in listed : d.at \in Seen
    /\ stage' = "read"
    /\ listed' = {}
    /\ UNCHANGED <<plugged, stayed, seized, devices, next, device_, protocol_>>

(* The end of _list_devices releases the array of devices but not the set.  *)
ListReturns ==
    /\ stage = "reading" /\ \A d \in listed : d.at \in Seen
    /\ stage' = "read"
    /\ UNCHANGED <<plugged, stayed, seized, listed, devices, next, device_, protocol_>>

(* A wrong DestroyManager: it drops its pointer to the manager and no more. *)
DestroyManagerUnclosed ==
    /\ stage = "read"
    /\ stage' = "choosing"
    /\ UNCHANGED <<plugged, stayed, seized, listed, devices, next, device_, protocol_>>

(* _destroy_hid_manager closes the devices; it releases nothing. *)
DestroyManager ==
    /\ stage = "read"
    /\ stage' = "choosing"
    /\ seized' = {}
    /\ UNCHANGED <<plugged, stayed, listed, devices, next, device_, protocol_>>

(* A wrong Consider: a device that is no wheel takes back the choice. *)
ConsiderForgets ==
    /\ stage = "choosing" /\ next <= Len(devices)
    /\ LET d == devices[next] IN
         /\ device_' = IF Takes(d) THEN d ELSE NoDevice
         /\ protocol_' = IF Takes(d) THEN get_supported_protocol(d) ELSE protocol_
    /\ next' = next + 1
    /\ UNCHANGED <<plugged, stayed, stage, seized, listed, devices>>

(* One round of the loop: a device that is taken replaces the one before.   *)
Consider ==
    /\ stage = "choosing" /\ next <= Len(devices)
    /\ LET d == devices[next] IN
         /\ device_' = IF Takes(d) THEN d ELSE device_
         /\ protocol_' = IF Takes(d) THEN get_supported_protocol(d) ELSE protocol_
    /\ next' = next + 1
    /\ UNCHANGED <<plugged, stayed, stage, seized, listed, devices>>

(* The loop ends; what the constructor does with device_ is Wheel's. *)
Chosen ==
    /\ stage = "choosing" /\ next > Len(devices)
    /\ stage' = "done"
    /\ UNCHANGED <<plugged, stayed, seized, listed, devices, next, device_, protocol_>>

ConstructorStep == CreateManager \/ CopyDevices \/ ReadDevice \/ ListReturns
                     \/ DestroyManager \/ Consider \/ Chosen

Plug == /\ \E d \in Attachable \ (plugged \cup listed) : plugged' = plugged \cup {d}
        /\ UNCHANGED <<stayed, stage, seized, listed, devices, next, device_, protocol_>>

Unplug == /\ \E d \in plugged : /\ plugged' = plugged \ {d}
                                /\ stayed' = stayed \ {d}
                                /\ seized' = seized \ {d}
          /\ UNCHANGED <<stage, listed, devices, next, device_, protocol_>>

Next == ConstructorStep \/ Plug \/ Unplug

Safety == Init /\ [][Next]_vars

(* The constructor is sequential code whose calls return. *)
Spec == Safety /\ WF_vars(ConstructorStep)

-----------------------------------------------------------------------------
(* Type invariant; and no wheel is given a protocol without implementation. *)
DiscoveryTypeOK ==
    /\ plugged \subseteq Attachable
    /\ stayed \subseteq plugged
    /\ stage \in Stages
    /\ seized \subseteq plugged
    /\ listed \subseteq Attachable
    /\ devices \in Seq(Hid)
    /\ next \in 1 .. Len(devices) + 1
    /\ device_ \in Hid
    /\ protocol_ \in {"logitech_classic", "count"}

(* The invariant of the constructor's loop (wheel.hxx:101-126): of the      *)
(* wheels seen so far it has the last, whatever else is in the list, with   *)
(* the one protocol that is implemented.                                    *)
LastWheelWins ==
    LET found == {i \in 1 .. next - 1 : Takes(devices[i])} IN
    \/ found = {} /\ device_ = NoDevice
    \/ \E i \in found : /\ \A j \in found : j <= i
                        /\ device_ = devices[i] /\ protocol_ = "logitech_classic"

(* What has been read of a device that is still connected is right.         *)
ReadInFull == /\ stage # "start" => stayed \subseteq listed
              /\ \A d \in stayed, i \in DOMAIN devices : devices[i].at = d.at => devices[i] = d
              /\ stage \in {"read", "choosing", "done"} =>
                   \A d \in stayed : \E i \in DOMAIN devices : devices[i] = d
              /\ stage \in {"start", "opened"} => devices = <<>>
              /\ stage = "done" => next = Len(devices) + 1

(* Once the manager is gone no device is seized any more. *)
GivenBack == stage \in {"choosing", "done"} => seized = {}

DiscoveryInv == DiscoveryTypeOK /\ ReadInFull /\ LastWheelWins /\ GivenBack

(* A wheel that stays connected is found, or another is: whatever order the *)
(* set has, whatever is plugged in or out during the listing and however    *)
(* incomplete a device is read that left, the constructor ends with a wheel *)
(* it has a protocol for (device.hxx:48-55, wheel.hxx:97-135).              *)
FindsAWheel ==
    stage = "done" /\ (\E d \in stayed : Takes(d)) =>
        Takes(device_) /\ protocol_ = "logitech_classic"

(* The pointers of the list and of device_, which retain nothing, are those *)
(* of live objects: what keeps them alive, through an unplugging too, is    *)
(* the copied set that is never released (device.hxx:206-227).              *)
PointersAreAlive == /\ Seen \subseteq {d.at : d \in listed}
                    /\ device_ # NoDevice => device_.at \in {d.at : d \in listed}

(* The listing seizes every device of the computer, the keyboard and the    *)
(* mouse among them: the constructor ends, and has then given all back      *)
(* (device.hxx:191-204).                                                    *)
GivesAllBack == <>[](stage = "done" /\ seized = {})
=============================================================================
