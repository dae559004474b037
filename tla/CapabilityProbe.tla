-------------------------- MODULE CapabilityProbe --------------------------
(***************************************************************************)
(* TestTranscoderCapabilities (src/core/transcoder.go 197-245) driven by   *)
(* forEachTranscoderSample (146-177), with testNvidiaTranscode (179-194).  *)
(* For each capability in order (default ones, then optional ones): with  *)
(* no test data it is assumed supported; otherwise its test segment is    *)
(* written to the shared testseg file (a failed write skips it) and it is *)
(* transcoded with four renditions on every device in turn.  The first   *)
(* failing device calls transcodingFailed: on the first device it tries   *)
(* three renditions to diagnose the driver's session limit, and a failed  *)
(* required capability sets fatalError, which stops the loop.             *)
(*                                                                         *)
(* The hardware is an input chosen in Init: hw[k][d] is what four         *)
(* renditions of capability k do on device d ("ok", "err", or "empty":    *)
(* no error but no valid output) and hw3[k] what three renditions do on   *)
(* the first device; written[k] says whether the test segment could be    *)
(* written.                                                                *)
(*                                                                         *)
(* TestSoftwareTranscoderCapabilities (263-286) runs the same loop with   *)
(* one testSoftwareTranscode (247-261) per capability: sw[k] is its        *)
(* outcome.  An error only leaves the capability out; an empty result is  *)
(* fatal for any capability.  probe says which of the two is run.         *)
(***************************************************************************)
EXTENDS Naturals, Sequences

CONSTANTS
    Caps,       \* append(DefaultCapabilities(), OptionalCapabilities()...)
    Required,   \* DefaultCapabilities()
    Tested,     \* the capabilities with an entry in CapabilityTestLookup
    Devices     \* the devices argument, in order

Outcomes == {"ok", "err", "empty"}
CapIdx == 1..Len(Caps)
DevIdx == 1..Len(Devices)

VARIABLES
    hw, hw3, sw, written,   \* the hardware and file system (fixed inputs)
    probe,      \* "nvidia" or "software": the function the node called
    pc,         \* "cap" (forEach loop head), "dev" (device loop), "done"
    k,          \* index of the capability under test
    d,          \* index of the device under test
    restricted, \* runRestrictedSessionTest
    caps,       \* the supported capabilities collected so far
    fatal       \* fatalError: "none", "session", "unsupported", "empty"

vars == <<hw, hw3, sw, written, probe, pc, k, d, restricted, caps, fatal>>

TypeOK ==
    /\ hw \in [CapIdx \X DevIdx -> Outcomes]
    /\ hw3 \in [CapIdx -> Outcomes]
    /\ sw \in [CapIdx -> Outcomes]
    /\ written \in [CapIdx -> BOOLEAN]
    /\ probe \in {"nvidia", "software"}
    /\ pc \in {"cap", "dev", "sw", "done"}
    /\ k \in 1..(Len(Caps) + 1)
    /\ d \in DevIdx
    /\ restricted \in BOOLEAN
    /\ caps \in Seq({Caps[j] : j \in CapIdx})
    /\ fatal \in {"none", "session", "unsupported", "empty"}

(* The outcomes the other probe would see are never read and are fixed.   *)
Init ==
    /\ \/ /\ probe = "nvidia"
          /\ hw \in [CapIdx \X DevIdx -> Outcomes]
          /\ hw3 \in [CapIdx -> Outcomes]
          /\ sw = [j \in CapIdx |-> "ok"]
       \/ /\ probe = "software"
          /\ hw = [c \in CapIdx \X DevIdx |-> "ok"]
          /\ hw3 = [j \in CapIdx |-> "ok"]
          /\ sw \in [CapIdx -> Outcomes]
    /\ written \in [CapIdx -> BOOLEAN]
    /\ pc = "cap"
    /\ k = 1
    /\ d = 1
    /\ restricted = TRUE
    /\ caps = <<>>
    /\ fatal = "none"

(* testNvidiaTranscode's (outputProduced, outputValid, err): an error     *)
(* returns false, false, err; "empty" is a result without valid output.   *)
Produced(o) == o = "ok"
Valid(o) == o = "ok"
Failed(o) == o = "err"

(* The condition of line 213 on the three-rendition test.                 *)
SessionLimited(o) == Failed(o) /\ Produced(o) /\ Valid(o)

hwVars == <<hw, hw3, sw, written, probe>>

(* One iteration of forEachTranscoderSample's loop head: the loop ends   *)
(* after the last capability; an untested capability is appended by the  *)
(* handler; a tested one whose segment cannot be written is skipped      *)
(* (continue); otherwise the handler runs its test: the device loop of    *)
(* TestTranscoderCapabilities (with runRestrictedSessionTest := true), or  *)
(* the one software transcode.                                             *)
NextCap ==
    /\ pc = "cap"
    /\ IF k > Len(Caps)
         THEN pc' = "done" /\ UNCHANGED <<k, d, restricted, caps>>
       ELSE IF Caps[k] \notin Tested
         THEN /\ caps' = Append(caps, Caps[k])
              /\ k' = k + 1
              /\ UNCHANGED <<pc, d, restricted>>
       ELSE IF ~written[k]
         THEN k' = k + 1 /\ UNCHANGED <<pc, d, restricted, caps>>
       ELSE /\ pc' = IF probe = "nvidia" THEN "dev" ELSE "sw"
            /\ d' = 1
            /\ restricted' = TRUE
            /\ UNCHANGED <<k, caps>>
    /\ UNCHANGED <<hwVars, fatal>>

(* transcodingFailed(), then return fatalError == nil.                    *)
TranscodingFailed ==
    LET limit == restricted /\ SessionLimited(hw3[k])
        f == IF Caps[k] \in Required THEN "unsupported"
             ELSE IF limit THEN "session" ELSE fatal
    IN /\ restricted' = FALSE
       /\ fatal' = f
       /\ pc' = IF f = "none" THEN "cap" ELSE "done"
       /\ k' = k + 1

(* Fault variant: the device loop runs one index past the last device.   *)
DeviceTestOverrun ==
    /\ pc = "dev"
    /\ IF hw[k, d] = "ok"
         THEN /\ restricted' = FALSE
              /\ IF d > Len(Devices)
                   THEN caps' = Append(caps, Caps[k]) /\ k' = k + 1
                        /\ pc' = "cap" /\ UNCHANGED d
                   ELSE d' = d + 1 /\ UNCHANGED <<pc, k, caps>>
              /\ UNCHANGED fatal
         ELSE TranscodingFailed /\ UNCHANGED <<d, caps>>
    /\ UNCHANGED hwVars

(* Fault variant: a failed capability never stops the loop (return true). *)
DeviceTestNoStop ==
    /\ pc = "dev"
    /\ IF hw[k, d] = "ok"
         THEN /\ restricted' = FALSE
              /\ IF d = Len(Devices)
                   THEN caps' = Append(caps, Caps[k]) /\ k' = k + 1
                        /\ pc' = "cap" /\ UNCHANGED d
                   ELSE d' = d + 1 /\ UNCHANGED <<pc, k, caps>>
              /\ UNCHANGED fatal
         ELSE /\ restricted' = FALSE
              /\ fatal' = IF Caps[k] \in Required THEN "unsupported" ELSE fatal
              /\ pc' = "cap" /\ k' = k + 1
              /\ UNCHANGED <<d, caps>>
    /\ UNCHANGED hwVars

(* One device: testNvidiaTranscode(device, ..., 4).  On an error or an    *)
(* empty result, transcodingFailed; otherwise runRestrictedSessionTest =  *)
(* false and the next device, and after the last one the capability is    *)
(* appended.                                                               *)
DeviceTest ==
    /\ pc = "dev"
    /\ IF hw[k, d] = "ok"
         THEN /\ restricted' = FALSE
              /\ IF d = Len(Devices)
                   THEN caps' = Append(caps, Caps[k]) /\ k' = k + 1
                        /\ pc' = "cap" /\ UNCHANGED d
                   ELSE d' = d + 1 /\ UNCHANGED <<pc, k, caps>>
              /\ UNCHANGED fatal
         ELSE TranscodingFailed /\ UNCHANGED <<d, caps>>
    /\ UNCHANGED hwVars

(* Fault variant: an empty result sets fatalError but the loop goes on.   *)
SoftwareTestNoStop ==
    /\ pc = "sw"
    /\ k' = k + 1
    /\ CASE sw[k] = "ok"    -> caps' = Append(caps, Caps[k]) /\ pc' = "cap"
                               /\ UNCHANGED fatal
          [] sw[k] = "err"   -> pc' = "cap" /\ UNCHANGED <<caps, fatal>>
          [] sw[k] = "empty" -> fatal' = "empty" /\ pc' = "cap"
                               /\ UNCHANGED caps
    /\ UNCHANGED <<hwVars, d, restricted>>

(* The software handler: testSoftwareTranscode(tmpdir, ..., 4).  An error  *)
(* returns true without appending; an empty result sets fatalError and    *)
(* returns false; otherwise the capability is appended.                   *)
SoftwareTest ==
    /\ pc = "sw"
    /\ k' = k + 1
    /\ CASE sw[k] = "ok"    -> caps' = Append(caps, Caps[k]) /\ pc' = "cap"
                               /\ UNCHANGED fatal
          [] sw[k] = "err"   -> pc' = "cap" /\ UNCHANGED <<caps, fatal>>
          [] sw[k] = "empty" -> fatal' = "empty" /\ pc' = "done"
                               /\ UNCHANGED caps
    /\ UNCHANGED <<hwVars, d, restricted>>

Next == NextCap \/ DeviceTest \/ SoftwareTest

Spec == Init /\ [][Next]_vars

-----------------------------------------------------------------------------
(* Reference definition of the probe's result *)

SupportedEverywhere(j) == \A e \in DevIdx : hw[j, e] = "ok"

(* The case the comment at 211 describes: four renditions fail on the    *)
(* first device and three succeed there, so the driver limits sessions.  *)
DriverLimited(j) == hw[j, 1] # "ok" /\ hw3[j] = "ok"

(* What the probe is meant to return from capability j on: untested       *)
(* capabilities are assumed supported, those whose test cannot be written *)
(* are left out, those passing on every device are supported, the first  *)
(* required one that fails ends the probe with a fatal error, and so does *)
(* an optional one that fails because the driver limits sessions          *)
(* (207-215).                                                              *)
RECURSIVE Reference(_)
Reference(j) ==
    IF j > Len(Caps) THEN [caps |-> <<>>, fatal |-> "none"]
    ELSE LET rest == Reference(j + 1)
             keep == [rest EXCEPT !.caps = <<Caps[j]>> \o rest.caps]
         IN  IF Caps[j] \notin Tested THEN keep
             ELSE IF ~written[j] THEN rest
             ELSE IF SupportedEverywhere(j) THEN keep
             ELSE IF Caps[j] \in Required
                  THEN [caps |-> <<>>, fatal |-> "unsupported"]
             ELSE IF DriverLimited(j)
                  THEN [caps |-> <<>>, fatal |-> "session"]
             ELSE rest

(* The software probe's intended result from capability j on: a test     *)
(* error leaves the capability out whether or not it is required, and an  *)
(* empty result ends the probe with a fatal error.                        *)
RECURSIVE SoftwareReference(_)
SoftwareReference(j) ==
    IF j > Len(Caps) THEN [caps |-> <<>>, fatal |-> "none"]
    ELSE LET rest == SoftwareReference(j + 1)
             keep == [rest EXCEPT !.caps = <<Caps[j]>> \o rest.caps]
         IN  CASE Caps[j] \notin Tested -> keep
               [] ~written[j]           -> rest
               [] sw[j] = "ok"          -> keep
               [] sw[j] = "err"         -> rest
               [] sw[j] = "empty"       -> [caps |-> <<>>, fatal |-> "empty"]

-----------------------------------------------------------------------------
(* Properties *)

(* TestTranscoderCapabilities returns the reference result: the tested    *)
(* capabilities supported on every device plus the untested ones, in      *)
(* order, and a fatal error exactly when a required capability failed     *)
(* (after which no later capability is reported).  Hardware on which the  *)
(* reference reports the driver's session limit is left out: the check at *)
(* 213 needs err != nil together with valid output, which                 *)
(* testNvidiaTranscode (188-190) never returns, so the code never reports *)
(* it.                                                                     *)
ProbeMatchesReference ==
    probe = "nvidia" /\ pc = "done" /\ Reference(1).fatal # "session" =>
        [caps |-> caps, fatal |-> fatal] = Reference(1)

(* TestSoftwareTranscoderCapabilities returns its reference result: the   *)
(* untested capabilities and those the software transcode handled, in     *)
(* order, up to the first empty result, which is the only fatal error.    *)
SoftwareProbeMatchesReference ==
    probe = "software" /\ pc = "done" =>
        [caps |-> caps, fatal |-> fatal] = SoftwareReference(1)

=============================================================================
