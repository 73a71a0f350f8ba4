------------------------------- MODULE Devices --------------------------------
(***************************************************************************)
(* The pnp install command (Pnp.cpp): of the machine's devices exactly one *)
(* has to match the identifier, of its compatible drivers exactly one the  *)
(* string.  The other drivers are marked as bad, and then the system picks *)
(* the best that is left.  Every call into the setup interface may fail; a *)
(* failure is logged and the command goes on, and an enumeration that      *)
(* fails has ended.  One step is one device, one driver or one call.       *)
(***************************************************************************)
EXTENDS Integers, Sequences, FiniteSets, SequencesExt

CONSTANTS MaxDevices, MaxDrivers   \* bounds on the machine

ASSUME DevicesAssumption == MaxDevices \in Nat /\ MaxDrivers \in Nat

\* Does the identifier occur in a hardware ID, and in the instance ID?
DeviceKinds == [hardware : {"no IDs", "no", "yes"}, instance : BOOLEAN]

\* Does the string occur in the driver's description?  Can its details be
\* queried, and can it be marked?
DriverKinds == [named : BOOLEAN, detail : BOOLEAN, markable : BOOLEAN]

VARIABLES machine,    \* the devices of the system
          drivers,    \* compatible drivers of the device, in the order of the list
          matched,    \* m_Devices: numbers of devices
          nextDevice, nextDriver,  \* numbers of what is looked at next
          found,      \* drivers that match the string
          bad,        \* drivers marked as bad
          selected,   \* the driver that is selected, 0 when none is
          installed,  \* the driver that was installed, 0 for none
          pnp         \* where the command is, or what it said last

pnpVars == <<machine, drivers, matched, nextDevice, nextDriver, found, bad, selected, installed, pnp>>

\* A bug: the instance ID is tried for a device without hardware IDs, too.
MatchInstance(device) == device.hardware = "yes" \/ device.instance

\* Match: a device without hardware IDs never matches.
Match(device) == device.hardware = "yes" \/ (device.hardware = "no" /\ device.instance)

DevicesInit == /\ machine \in BoundedSeq(DeviceKinds, MaxDevices)
               /\ drivers \in BoundedSeq(DriverKinds, MaxDrivers)
               /\ matched = <<>> /\ nextDevice = 1 /\ nextDriver = 1 /\ found = 0 /\ bad = {}
               /\ selected = 0 /\ installed = 0
               /\ pnp = "devices"

EnumDevice == /\ pnp = "devices" /\ nextDevice \in DOMAIN machine
              /\ matched' = IF Match(machine[nextDevice]) THEN Append(matched, nextDevice) ELSE matched
              /\ nextDevice' = nextDevice + 1
              /\ UNCHANGED <<machine, drivers, nextDriver, found, bad, selected, installed, pnp>>

\* The end of the list, or a call that failed.
EndOfDevices == /\ pnp = "devices"
                /\ pnp' = IF Len(matched) = 1 THEN "drivers" ELSE "not a single device"
                /\ UNCHANGED <<machine, drivers, matched, nextDevice, nextDriver, found, bad, selected, installed>>

\* A bug: a driver whose details cannot be queried counts as found.
EnumDriverCounting ==
  /\ pnp = "drivers" /\ nextDriver \in DOMAIN drivers
  /\ found' = IF drivers[nextDriver].named \/ ~drivers[nextDriver].detail THEN found + 1 ELSE found
  /\ bad' = IF ~drivers[nextDriver].named /\ drivers[nextDriver].detail /\ drivers[nextDriver].markable
              THEN bad \cup {nextDriver} ELSE bad
  /\ nextDriver' = nextDriver + 1
  /\ UNCHANGED <<machine, drivers, matched, nextDevice, selected, installed, pnp>>

\* One turn of EnumerateDrivers with the functor of SetSelected: a driver
\* whose details cannot be queried is passed over.
EnumDriver ==
  /\ pnp = "drivers" /\ nextDriver \in DOMAIN drivers
  /\ LET driver == drivers[nextDriver] IN
     /\ found' = IF driver.detail /\ driver.named THEN found + 1 ELSE found
     /\ bad' = IF driver.detail /\ ~driver.named /\ driver.markable THEN bad \cup {nextDriver} ELSE bad
  /\ nextDriver' = nextDriver + 1
  /\ UNCHANGED <<machine, drivers, matched, nextDevice, selected, installed, pnp>>

\* The end of the list, or a call that failed: of an entry, or of the list.
EndOfDrivers == /\ pnp = "drivers"
                /\ pnp' = CASE found = 0 -> "no suitable driver"
                            [] found = 1 -> "select"
                            [] OTHER     -> "several drivers"
                /\ UNCHANGED <<machine, drivers, matched, nextDevice, nextDriver, found, bad, selected, installed>>

\* SetupDiSelectBestCompatDrv: which of the drivers is the best is not told.
SelectBest == /\ pnp = "select"
              /\ \/ selected' \in DOMAIN drivers \ bad
                 \/ UNCHANGED selected
              /\ pnp' = "install"
              /\ UNCHANGED <<machine, drivers, matched, nextDevice, nextDriver, found, bad, installed>>

\* SetupDiInstallDevice, called whether or not a driver could be selected:
\* with none selected the system installs none, or one of those left to it.
Install == /\ pnp = "install"
           /\ \/ /\ installed' \in IF selected # 0 THEN {selected} ELSE {0} \cup (DOMAIN drivers \ bad)
                 /\ pnp' = "installed"
              \/ UNCHANGED installed /\ pnp' = "not installed"
           /\ UNCHANGED <<machine, drivers, matched, nextDevice, nextDriver, found, bad, selected>>

DevicesNext == EnumDevice \/ EndOfDevices \/ EnumDriver \/ EndOfDrivers \/ SelectBest \/ Install

DevicesSpec == DevicesInit /\ [][DevicesNext]_pnpVars

-----------------------------------------------------------------------------

\* SetSelected and InstallDriver: the system is made to install only when one
\* device matches, of those enumerated, and the string names one driver, of
\* those enumerated and queried.  If a driver is installed then, it is that one
\* - or one that was not enumerated, queried or marked, which the command does
\* not notice.  When both enumerations came to their end and every driver could
\* be queried and marked, the machine has no other device that matches, and
\* the driver installed is the only one the string names.
InstalledOnPurpose ==
  pnp = "installed" =>
    LET target(d) == machine[d].hardware = "yes" \/ (machine[d].hardware # "no IDs" /\ machine[d].instance)
        queried == {d \in 1..(nextDriver - 1) : drivers[d].detail}
        nothingMissed == /\ nextDevice > Len(machine) /\ nextDriver > Len(drivers)
                         /\ \A d \in DOMAIN drivers : drivers[d].detail /\ drivers[d].markable
    IN  /\ Cardinality({d \in 1..(nextDevice - 1) : target(d)}) = 1
        /\ Cardinality({d \in queried : drivers[d].named}) = 1
        /\ installed # 0 => drivers[installed].named \/ installed \notin queried \/ ~drivers[installed].markable
        /\ nothingMissed => /\ Cardinality({d \in DOMAIN machine : target(d)}) = 1
                            /\ installed # 0 => {d \in DOMAIN drivers : drivers[d].named} = {installed}
=============================================================================
