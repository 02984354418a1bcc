-------------------------- MODULE DiscoveryProofs --------------------------
(***************************************************************************)
(* Proofs about Discovery, for any devices a computer may have, any order  *)
(* of the set of devices and any plugging in or out.                       *)
(***************************************************************************)
EXTENDS Discovery, TLAPS

(* Both known wheels are Logitech's: the constructor's second test takes    *)
(* every device its first one took, and every known wheel is logged as an   *)
(* unknown one too (wheel.hxx:109-125).                                     *)
THEOREM OnlyVendorDecides ==
    \A d \in Hid : Takes(d) <=> HasWheelUsage(d) /\ d.vendor = Logitech_VendorID
<1>1. \A d \in Hid : IsKnown(d) => d.vendor = Logitech_VendorID
  BY DEF IsKnown, DeviceId, known_wheel_device_ids, Logitech_VendorID
<1> QED
  BY <1>1 DEF Takes

(* No device at all is no wheel. *)
LEMMA NoDeviceIsNoWheel == NoDevice \in Hid /\ ~Takes(NoDevice)
<1>1. NoDevice \in Hid
  BY DEF NoDevice, Device, Hid, Id
<1>2. NoDevice.usage = 0
  BY DEF NoDevice, Device
<1>3. ~Takes(NoDevice)
  BY <1>2 DEF Takes, HasWheelUsage
<1> QED
  BY <1>1, <1>3

(* A device that is taken gets the protocol that is implemented. *)
LEMMA TakenIsClassic ==
    \A d \in Hid : Takes(d) => get_supported_protocol(d) = "logitech_classic"
BY OnlyVendorDecides DEF get_supported_protocol

(* What is read of a device is a device, and the device if it is connected. *)
LEMMA ReadingIsHid ==
    ASSUME NEW d \in Attachable, NEW reading \in Readings(d)
    PROVE  /\ reading \in Hid /\ reading.at = d.at
           /\ d \in plugged => reading = d
<1>1. d \in Hid
  BY AttachableAssumption
<1>2. CASE d \in plugged
  BY <1>1, <1>2 DEF Readings
<1>3. CASE d \notin plugged
  <2>1. reading \in [at : {d.at}, vendor : {d.vendor, 0}, product : {d.product, 0},
                      usage_page : {d.usage_page, 0}, usage : {d.usage, 0}]
    BY <1>3 DEF Readings
  <2>2. /\ d.at \in Nat /\ {d.vendor, 0} \subseteq Id /\ {d.product, 0} \subseteq Id
        /\ {d.usage_page, 0} \subseteq Id /\ {d.usage, 0} \subseteq Id
    <3>1. /\ d.at \in Nat /\ d.vendor \in Id /\ d.product \in Id
          /\ d.usage_page \in Id /\ d.usage \in Id
      BY <1>1 DEF Hid
    <3>2. 0 \in Id
      BY DEF Id
    <3> QED
      BY <3>1, <3>2
  <2>3. reading.at = d.at
    BY <2>1
  <2>4. reading \in Hid
    BY <2>1, <2>2 DEF Hid
  <2> QED
    BY <1>3, <2>3, <2>4
<1> QED
  BY <1>2, <1>3

-----------------------------------------------------------------------------
LEMMA InitInv == Init => DiscoveryInv
<1> SUFFICES ASSUME Init PROVE DiscoveryInv
  OBVIOUS
<1>1. DiscoveryTypeOK
  BY NoDeviceIsNoWheel DEF Init, DiscoveryTypeOK, Stages
<1>2. ReadInFull
  BY DEF Init, ReadInFull
<1>3. LastWheelWins
  BY DEF Init, LastWheelWins
<1>4. GivenBack
  BY DEF Init, GivenBack
<1> QED
  BY <1>1, <1>2, <1>3, <1>4 DEF DiscoveryInv

(* The choice depends on the devices looked at and on nothing else.         *)
LEMMA ChoiceKept ==
    LastWheelWins /\ UNCHANGED <<devices, next, device_, protocol_>> => LastWheelWins'
BY DEF LastWheelWins

LEMMA ReadDeviceInv == DiscoveryInv /\ ReadDevice => DiscoveryInv'
<1> SUFFICES ASSUME DiscoveryInv, ReadDevice PROVE DiscoveryInv'
  OBVIOUS
<1> USE DEF DiscoveryInv
<1>1. PICK d \in listed : /\ d.at \notin Seen
                          /\ \E reading \in Readings(d) : devices' = Append(devices, reading)
  BY DEF ReadDevice
<1>2. PICK reading \in Readings(d) : devices' = Append(devices, reading)
  BY <1>1
<1>3. d \in Attachable /\ reading \in Hid /\ reading.at = d.at /\ (d \in plugged => reading = d)
  BY <1>2, ReadingIsHid DEF DiscoveryTypeOK
<1>4. /\ devices \in Seq(Hid) /\ devices' \in Seq(Hid)
      /\ Len(devices') = Len(devices) + 1
      /\ \A i \in DOMAIN devices : devices'[i] = devices[i]
      /\ devices'[Len(devices) + 1] = reading
      /\ DOMAIN devices' = DOMAIN devices \cup {Len(devices) + 1}
  BY <1>2, <1>3 DEF DiscoveryTypeOK
<1>5. DiscoveryTypeOK'
  BY <1>4 DEF ReadDevice, DiscoveryTypeOK
<1>6. ReadInFull'
  <2>1. \A e \in stayed : reading.at = e.at => reading = e
    BY <1>3, AttachableAssumption DEF DiscoveryTypeOK
  <2>2. \A e \in stayed, i \in DOMAIN devices' : devices'[i].at = e.at => devices'[i] = e
    BY <2>1, <1>4 DEF ReadInFull
  <2> QED
    BY <2>2 DEF ReadDevice, ReadInFull
<1>7. LastWheelWins'
  <2>1. \A i \in 1 .. next - 1 : i \in DOMAIN devices /\ devices'[i] = devices[i]
    BY <1>4 DEF DiscoveryTypeOK
  <2>2. {i \in 1 .. next - 1 : Takes(devices'[i])} = {i \in 1 .. next - 1 : Takes(devices[i])}
    BY <2>1
  <2> QED
    BY <2>1, <2>2 DEF ReadDevice, LastWheelWins
<1>8. GivenBack'
  BY DEF ReadDevice, GivenBack
<1> QED
  BY <1>5, <1>6, <1>7, <1>8

LEMMA ListReturnsInv == DiscoveryInv /\ ListReturns => DiscoveryInv'
<1> SUFFICES ASSUME DiscoveryInv, ListReturns PROVE DiscoveryInv'
  OBVIOUS
<1> USE DEF DiscoveryInv, ListReturns
<1>1. DiscoveryTypeOK'
  BY DEF DiscoveryTypeOK, Stages
<1>2. ReadInFull'
  <2>1. \A d \in stayed : \E i \in DOMAIN devices : devices[i].at = d.at
    BY DEF ReadInFull, Seen
  <2>2. \A d \in stayed : \E i \in DOMAIN devices : devices[i] = d
    BY <2>1 DEF ReadInFull
  <2> QED
    BY <2>2 DEF ReadInFull
<1>3. LastWheelWins'
  BY ChoiceKept
<1>4. GivenBack'
  BY DEF GivenBack
<1> QED
  BY <1>1, <1>2, <1>3, <1>4

LEMMA ConsiderInv == DiscoveryInv /\ Consider => DiscoveryInv'
<1> SUFFICES ASSUME DiscoveryInv, Consider PROVE DiscoveryInv'
  OBVIOUS
<1> USE DEF DiscoveryInv
<1> DEFINE d == devices[next]
<1>1. /\ next \in Nat /\ next >= 1 /\ next <= Len(devices) /\ Len(devices) \in Nat
      /\ d \in Hid /\ next' = next + 1 /\ devices' = devices
  BY DEF Consider, DiscoveryTypeOK
<1>2. DiscoveryTypeOK'
  <2>1. next' \in 1 .. Len(devices') + 1
    BY <1>1
  <2>2. device_' \in Hid /\ protocol_' \in {"logitech_classic", "count"}
    BY <1>1, TakenIsClassic DEF Consider, DiscoveryTypeOK
  <2> QED
    BY <2>1, <2>2, <1>1 DEF Consider, DiscoveryTypeOK
<1>3. ReadInFull'
  BY DEF Consider, ReadInFull
<1>4. LastWheelWins'
  <2> DEFINE found(n) == {i \in 1 .. n - 1 : Takes(devices[i])}
  <2>1. CASE Takes(d)
    <3>1. next \in found(next + 1) /\ \A j \in found(next + 1) : j <= next
      BY <1>1, <2>1
    <3>2. device_' = d /\ protocol_' = "logitech_classic"
      BY <1>1, <2>1, TakenIsClassic DEF Consider
    <3> QED
      BY <1>1, <3>1, <3>2 DEF LastWheelWins
  <2>2. CASE ~Takes(d)
    <3>1. found(next + 1) = found(next)
      BY <1>1, <2>2
    <3>2. device_' = device_ /\ protocol_' = protocol_
      BY <2>2 DEF Consider
    <3> QED
      BY <1>1, <3>1, <3>2 DEF LastWheelWins
  <2> QED
    BY <2>1, <2>2
<1>5. GivenBack'
  BY DEF Consider, GivenBack
<1> QED
  BY <1>2, <1>3, <1>4, <1>5

LEMMA StepInv == DiscoveryInv /\ [Next]_vars => DiscoveryInv'
<1> SUFFICES ASSUME DiscoveryInv, [Next]_vars PROVE DiscoveryInv'
  OBVIOUS
<1> USE DEF DiscoveryInv
<1>1. CASE CreateManager
  BY <1>1, ChoiceKept DEF CreateManager, DiscoveryTypeOK, ReadInFull, GivenBack, Stages
<1>2. CASE CopyDevices
  BY <1>2, ChoiceKept DEF CopyDevices, DiscoveryTypeOK, ReadInFull, GivenBack, Stages
<1>3. CASE ReadDevice
  BY <1>3, ReadDeviceInv
<1>4. CASE ListReturns
  BY <1>4, ListReturnsInv
<1>5. CASE DestroyManager
  BY <1>5, ChoiceKept DEF DestroyManager, DiscoveryTypeOK, ReadInFull, GivenBack, Stages
<1>6. CASE Consider
  BY <1>6, ConsiderInv
<1>7. CASE Chosen
  <2>1. stage' = "done" /\ next' = Len(devices') + 1
    BY <1>7 DEF Chosen, DiscoveryTypeOK
  <2> QED
    BY <1>7, <2>1, ChoiceKept DEF Chosen, DiscoveryTypeOK, ReadInFull, GivenBack, Stages
<1>8. CASE Plug
  BY <1>8, ChoiceKept DEF Plug, DiscoveryTypeOK, ReadInFull, GivenBack
<1>9. CASE Unplug
  BY <1>9, ChoiceKept DEF Unplug, DiscoveryTypeOK, ReadInFull, GivenBack
<1>10. CASE UNCHANGED vars
  BY <1>10, ChoiceKept DEF vars, DiscoveryTypeOK, ReadInFull, GivenBack
<1> QED
  BY <1>1, <1>2, <1>3, <1>4, <1>5, <1>6, <1>7, <1>8, <1>9, <1>10 DEF Next, ConstructorStep

(* The inductive invariant of the discovery: types, what has been read, and *)
(* the choice made so far.                                                  *)
THEOREM DiscoveryInvariant == Safety => []DiscoveryInv
<1> QED
  BY InitInv, StepInv, PTL DEF Safety

(* The constructor finds a wheel whenever one stays connected.              *)
THEOREM WheelIsFound == Safety => []FindsAWheel
<1>1. DiscoveryInv => FindsAWheel
  <2> SUFFICES ASSUME DiscoveryInv, stage = "done", NEW d \in stayed, Takes(d)
               PROVE  Takes(device_) /\ protocol_ = "logitech_classic"
    BY DEF FindsAWheel
  <2>1. PICK i \in DOMAIN devices : devices[i] = d
    BY DEF DiscoveryInv, ReadInFull
  <2>2. i \in 1 .. next - 1
    BY <2>1 DEF DiscoveryInv, DiscoveryTypeOK, ReadInFull
  <2>3. i \in {j \in 1 .. next - 1 : Takes(devices[j])}
    BY <2>1, <2>2
  <2> QED
    BY <2>3 DEF DiscoveryInv, LastWheelWins
<1> QED
  BY <1>1, DiscoveryInvariant, PTL

(* Every device the listing has opened for itself alone, the keyboard and   *)
(* the mouse among them, is given back before the choice begins, unplugged  *)
(* in between or not (device.hxx:191-204).                                  *)
THEOREM NothingStaysSeized == Safety => []GivenBack
<1>1. DiscoveryInv => GivenBack
  BY DEF DiscoveryInv
<1> QED
  BY <1>1, DiscoveryInvariant, PTL

-----------------------------------------------------------------------------
(* What the listing has still to read, and the choice still to look at.     *)
Unread      == {d \in listed : d.at \notin Seen}
Unconsidered == next .. Len(devices)

Progresses == \/ ReadDevice /\ Unread' \subseteq Unread /\ Unread' # Unread
              \/ Consider /\ Unconsidered' \subseteq Unconsidered /\ Unconsidered' # Unconsidered
              \/ <<stage, stage'>> \in {<<"start", "opened">>, <<"opened", "reading">>,
                                       <<"reading", "read">>, <<"read", "choosing">>,
                                       <<"choosing", "done">>}

(* A step of the constructor that stays in its stage reads one more device  *)
(* of those that were listed, or looks at one more of those that were read; *)
(* what is plugged in or out meanwhile adds nothing to either: for finitely *)
(* many devices the constructor ends (device.hxx:206-227, wheel.hxx:97-126).*)
ConstructorEnds ==
    [][ IF ConstructorStep THEN Progresses
        ELSE Unread' = Unread /\ Unconsidered' = Unconsidered /\ stage' = stage ]_vars

THEOREM ConstructorIsBounded == Safety => ConstructorEnds
<1>1. DiscoveryInv /\ [Next]_vars
        => [ IF ConstructorStep THEN Progresses
             ELSE Unread' = Unread /\ Unconsidered' = Unconsidered /\ stage' = stage ]_vars
  <2> SUFFICES ASSUME DiscoveryInv, Next
               PROVE  IF ConstructorStep THEN Progresses
                      ELSE Unread' = Unread /\ Unconsidered' = Unconsidered /\ stage' = stage
    OBVIOUS
  <2>1. CASE ReadDevice
    <3>1. PICK d \in listed : /\ d.at \notin Seen
                              /\ \E reading \in Readings(d) : devices' = Append(devices, reading)
      BY <2>1 DEF ReadDevice
    <3>2. PICK reading \in Readings(d) : devices' = Append(devices, reading)
      BY <3>1
    <3>3. reading \in Hid /\ reading.at = d.at /\ devices \in Seq(Hid)
      BY <3>2, ReadingIsHid DEF DiscoveryInv, DiscoveryTypeOK
    <3>4. Seen \cup {d.at} \subseteq Seen'
      <4>1. \A i \in DOMAIN devices : i \in DOMAIN devices' /\ devices'[i] = devices[i]
        BY <3>2, <3>3
      <4>2. Len(devices) + 1 \in DOMAIN devices' /\ devices'[Len(devices) + 1] = reading
        BY <3>2, <3>3
      <4> QED
        BY <3>3, <4>1, <4>2 DEF Seen
    <3>5. listed' = listed
      BY <2>1 DEF ReadDevice
    <3>6. Unread' \subseteq Unread /\ d \in Unread /\ d \notin Unread'
      BY <3>1, <3>4, <3>5 DEF Unread
    <3> QED
      BY <2>1, <3>6 DEF ConstructorStep, Progresses
  <2>2. CASE Consider
    <3>1. /\ next \in Nat /\ Len(devices) \in Nat /\ next <= Len(devices)
          /\ next' = next + 1 /\ devices' = devices
      BY <2>2 DEF Consider, DiscoveryInv, DiscoveryTypeOK
    <3>2. /\ Unconsidered' \subseteq Unconsidered
          /\ next \in Unconsidered /\ next \notin Unconsidered'
      BY <3>1 DEF Unconsidered
    <3> QED
      BY <2>2, <3>2 DEF ConstructorStep, Progresses
  <2>3. CASE CreateManager \/ CopyDevices \/ ListReturns \/ DestroyManager \/ Chosen
    BY <2>3 DEF CreateManager, CopyDevices, ListReturns, DestroyManager, Chosen, ConstructorStep,
                Progresses
  <2>4. CASE ~ConstructorStep /\ (Plug \/ Unplug)
    BY <2>4 DEF Plug, Unplug, Unread, Unconsidered, Seen
  <2> QED
    BY <2>1, <2>2, <2>3, <2>4 DEF Next, ConstructorStep
<1> QED
  BY <1>1, DiscoveryInvariant, PTL DEF Safety, ConstructorEnds

-----------------------------------------------------------------------------
(* The device chosen is one that has been read. *)
LEMMA ChosenWasSeen == DiscoveryInv /\ device_ # NoDevice => device_.at \in Seen
<1> SUFFICES ASSUME DiscoveryInv, device_ # NoDevice PROVE device_.at \in Seen
  OBVIOUS
<1>1. PICK i \in 1 .. next - 1 : device_ = devices[i]
  BY DEF DiscoveryInv, LastWheelWins
<1>2. i \in DOMAIN devices
  BY <1>1 DEF DiscoveryInv, DiscoveryTypeOK
<1> QED
  BY <1>1, <1>2 DEF Seen

(* What was read was in the set, and the set never loses a device.          *)
SeenIsListed == Seen \subseteq {d.at : d \in listed}

LEMMA SeenStep == DiscoveryInv /\ SeenIsListed /\ [Next]_vars => SeenIsListed'
<1> SUFFICES ASSUME DiscoveryInv, SeenIsListed, [Next]_vars PROVE SeenIsListed'
  OBVIOUS
<1>1. ASSUME UNCHANGED <<listed, devices>> PROVE SeenIsListed'
  BY <1>1 DEF SeenIsListed, Seen
<1>2. ASSUME devices = <<>>, UNCHANGED devices PROVE SeenIsListed'
  BY <1>2 DEF SeenIsListed, Seen
<1>3. CASE CreateManager
  BY <1>2, <1>3 DEF CreateManager, DiscoveryInv, ReadInFull
<1>4. CASE CopyDevices
  BY <1>2, <1>4 DEF CopyDevices, DiscoveryInv, ReadInFull
<1>5. CASE ReadDevice
  <2>0. PICK d \in listed : \E reading \in Readings(d) : devices' = Append(devices, reading)
    BY <1>5 DEF ReadDevice
  <2>1. PICK reading \in Readings(d) : devices' = Append(devices, reading)
    BY <2>0
  <2>2. reading.at = d.at /\ reading \in Hid
    BY <2>1, ReadingIsHid DEF DiscoveryInv, DiscoveryTypeOK
  <2>3. \A i \in DOMAIN devices' : devices'[i].at \in Seen \cup {d.at}
    BY <2>1, <2>2 DEF Seen, DiscoveryInv, DiscoveryTypeOK
  <2>4. Seen' \subseteq Seen \cup {d.at}
    BY <2>3 DEF Seen
  <2>5. listed' = listed
    BY <1>5 DEF ReadDevice
  <2> QED
    BY <2>4, <2>5 DEF SeenIsListed
<1>6. CASE ListReturns \/ DestroyManager \/ Consider \/ Chosen \/ Plug \/ Unplug
  BY <1>1, <1>6 DEF ListReturns, DestroyManager, Consider, Chosen, Plug, Unplug
<1>7. CASE UNCHANGED vars
  BY <1>1, <1>7 DEF vars
<1> QED
  BY <1>3, <1>4, <1>5, <1>6, <1>7 DEF Next, ConstructorStep

(* No pointer of the list, and not the wheel's, outlives its object.        *)
THEOREM NothingDangles == Safety => []PointersAreAlive
<1>1. Init => SeenIsListed
  BY DEF Init, SeenIsListed, Seen
<1>2. DiscoveryInv /\ SeenIsListed => PointersAreAlive
  BY ChosenWasSeen DEF SeenIsListed, PointersAreAlive
<1> QED
  BY <1>1, <1>2, SeenStep, DiscoveryInvariant, PTL DEF Safety
=============================================================================
