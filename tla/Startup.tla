------------------------------- MODULE Startup -------------------------------
(***************************************************************************)
(* The beginning of a run, before and between the steps of Destinations:   *)
(* the choice of a device (client.rs resolve), the probe of the source     *)
(* (main.rs probe_source), the rule of the trailing slash, and the scan,   *)
(* which alone knows what the source is.  Phones come and go, and what is  *)
(* at the path of the source may be replaced, between any two steps.       *)
(***************************************************************************)
EXTENDS Destinations, Sequences

CONSTANTS
  Serials,     \* the phones
  MaxEvents    \* bound: changes of a phone or of the source

AnyPhone == "any"   \* no serial

ASSUME StartupAssumption ==
  IsFiniteSet(Serials) /\ AnyPhone \notin Serials /\ MaxEvents \in Nat

(* args.rs parse_remote: "device:", "adb:" and an empty name ask for the   *)
(* only device there is.                                                   *)
RemoteSpec == [serial : Serials \union {AnyPhone}, slash : BOOLEAN]

VARIABLES
  phone,     \* what the adb server knows: "device", "offline", or "absent"
  source,    \* at the path, on each phone: "file", "dir" or "none"
  spec,      \* RemoteSpec: serial, or AnyPhone, and trailing_slash
  stage,     \* "connect", "probe" or "go"
  selector,  \* the DeviceSelector of every later stream
  probe,     \* SourceProbe: "file" or "other"
  base,      \* what resolve_destinations appends to every root
  seen,      \* what the scan found the source to be, "unknown" before
  \* history: the phones that answered; whether the probe was answered;
  \* events, see MaxEvents
  talked, answered, events
svars == <<phone, source, spec, stage, selector, probe, base, seen, talked, answered, events>>
allVars == <<vars, svars>>

SInit ==
  /\ Init
  /\ phone \in [Serials -> {"device", "offline", "absent"}]
  /\ source \in [Serials -> {"file", "dir", "none"}]
  /\ spec \in RemoteSpec
  /\ stage = "connect" /\ selector = spec.serial /\ probe = "other"
  /\ base = <<>> /\ seen = "unknown"
  /\ talked = {} /\ answered = FALSE /\ events = 0

StopAtOnce ==
  Stop("failed") /\ UNCHANGED <<options, disks, todo, work, history>>

-----------------------------------------------------------------------------
(* AdbClient::resolve: exactly one usable device, or the one that is named.*)

Usable == {s \in Serials : phone[s] = "device"}
Chosen == IF spec.serial = AnyPhone
          THEN IF Cardinality(Usable) = 1 THEN Usable ELSE {}
          ELSE Usable \intersect {spec.serial}

PinNone(s) == spec.serial    \* mutant: later streams ask as the user did
Pin(s) == s

ResolveDevice ==
  /\ stage = "connect" /\ pc # "over"
  /\ \/ /\ \E s \in Chosen : selector' = Pin(s)
        /\ stage' = "probe"
        /\ UNCHANGED vars
     \/ /\ Chosen = {} /\ StopAtOnce
        /\ UNCHANGED <<stage, selector>>
  /\ UNCHANGED <<phone, source, spec, probe, base, seen, talked, answered, events>>

(* Where the adb server sends a stream (external). *)
Routed == IF selector = AnyPhone
          THEN IF Cardinality(Usable) = 1 THEN Usable ELSE {}
          ELSE Usable \intersect {selector}

(* probe_source.  "A stat that fails for any reason other than a plain     *)
(* absence is left to the scan": it counts as a directory.                 *)
Probe ==
  /\ stage = "probe" /\ pc # "over"
  /\ \/ \E s \in Routed :
          /\ talked' = talked \union {s} /\ answered' = TRUE
          /\ \/ /\ source[s] = "none" /\ StopAtOnce /\ UNCHANGED <<stage, probe>>
             \/ /\ source[s] # "none" /\ stage' = "go"
                /\ probe' = (IF source[s] = "file" THEN "file" ELSE "other")
                /\ UNCHANGED vars
     \/ /\ stage' = "go" /\ UNCHANGED <<vars, probe, talked, answered>>
  /\ UNCHANGED <<phone, source, spec, selector, base, seen, events>>

(* Without a trailing slash the source directory itself is made inside     *)
(* each destination.                                                       *)
BaseIgnoresProbe == IF spec.slash THEN <<>> ELSE <<"name">>  \* mutant
Base == IF spec.slash \/ probe = "file" THEN <<>> ELSE <<"name">>

ResolveRoots ==
  /\ stage = "go" /\ CheckRoots
  /\ base' = Base
  /\ UNCHANGED <<phone, source, spec, stage, selector, probe, seen, talked, answered, events>>

(* scan_remote, which runs beside the local scans. *)
ScanDevice ==
  /\ pc = "scan" /\ seen = "unknown"
  /\ \/ \E s \in Routed :
          /\ talked' = talked \union {s}
          /\ \/ source[s] = "none" /\ StopAtOnce /\ UNCHANGED seen
             \/ source[s] # "none" /\ seen' = source[s] /\ UNCHANGED vars
     \/ StopAtOnce /\ UNCHANGED <<seen, talked>>
  /\ UNCHANGED <<phone, source, spec, stage, selector, probe, base, answered, events>>

-----------------------------------------------------------------------------
(* The user and the phones; bound: either these change in a run or drives. *)
PhoneChanges ==
  /\ events < MaxEvents /\ plugs = 0 /\ events' = events + 1
  /\ seen = "unknown" /\ pc # "over"
  /\ \E s \in Serials : \E state \in {"device", "offline", "absent"} \ {phone[s]} :
       phone' = [phone EXCEPT ![s] = state]
  /\ UNCHANGED <<vars, source, spec, stage, selector, probe, base, seen, talked, answered>>

SourceChanges ==
  /\ events < MaxEvents /\ plugs = 0 /\ events' = events + 1
  /\ seen = "unknown" /\ pc # "over"
  /\ \E s \in Serials : \E kind \in {"file", "dir", "none"} \ {source[s]} :
       source' = [source EXCEPT ![s] = kind]
  /\ UNCHANGED <<vars, phone, spec, stage, selector, probe, base, seen, talked, answered>>

(* The steps of Destinations, once there is a device and a source. *)
Resolving == \E d \in Dests : Exists(d) \/ NotADirectory(d) \/ CreateMissing(d) \/ CollectMissing(d)
Working == \/ ScanLocal \/ ScanLocalFails \/ (seen # "unknown" /\ Plan)
           \/ PrepareDest \/ Prepared \/ FetchFile \/ DeleteOne \/ End
InDestinations ==
  stage = "go" /\ (Resolving \/ Working \/ (events = 0 /\ (Unplug \/ Plug))) /\ UNCHANGED svars

SOver == pc = "over" /\ UNCHANGED allVars
SNext == \/ ResolveDevice \/ Probe \/ ResolveRoots \/ ScanDevice
         \/ InDestinations \/ PhoneChanges \/ SourceChanges \/ SOver

SSpec == SInit /\ [][SNext]_allVars

-----------------------------------------------------------------------------
(* "Pin the resolved serial so every later stream lands on the same        *)
(* device" (main.rs run): one run talks to one phone, also when another    *)
(* one takes its place while the run is starting.                          *)
OnePhone == Cardinality(talked) <= 1

(* Where a file of the source lands, below a destination. *)
Landing == base \o (IF seen = "file" THEN <<"name">> ELSE <<"child">>)
Due == IF seen = "file" THEN <<"name">>
       ELSE IF spec.slash THEN <<"child">> ELSE <<"name", "child">>

(* README: "A trailing slash on SRC copies the directory's contents;       *)
(* without one the directory itself is created inside DEST [...] A single  *)
(* file as SRC always lands inside DEST under its own name".  The roots    *)
(* are decided on the word of the probe and the files named by the scan:   *)
(* as long as the source is not replaced in between, the two agree, unless *)
(* the probe got no answer.                                                *)
LandsWhereDue ==
  pc \in {"prepare", "fetch"} /\ events = 0 =>
    \/ Landing = Due
    \/ ~answered /\ seen = "file" /\ Landing = <<"name", "name">>

=============================================================================
