-------------------------- MODULE SegmentTranscode --------------------------
(***************************************************************************)
(* LocalTranscoder.Transcode and resToTranscodeData (src/core/             *)
(* transcoder.go 41-73, 322-365) and NvidiaTranscoder.Transcode (84-116),  *)
(* which differ only in the call that runs ffmpeg: ffmpeg.Transcode3 or   *)
(* the GPU session's Transcode; accel says which one runs.  The options are one output per profile, each written  *)
(* by ffmpeg to out_<random>.tempfile in the work dir (plus <oname>.bin   *)
(* when the perceptual hash is requested), followed by one option per    *)
(* detector, which has no output file.  ffmpeg either succeeds, returns   *)
(* an error or panics (recoverFromPanic turns the panic into an           *)
(* UnrecoverableError); on error or panic it may have written any subset  *)
(* of the outputs.  resToTranscodeData then reads every output into       *)
(* memory and removes it, returning at the first read error.              *)
(*                                                                         *)
(* A file is <<i, kind>>: option i's output ("out") or its signature      *)
(* ("bin").  The random names are distinct, so concurrent calls do not    *)
(* share files and one call is modelled.                                   *)
(***************************************************************************)
EXTENDS Naturals, Sequences

CONSTANTS
    MaxProfiles,    \* md.Profiles has 1..MaxProfiles entries
    MaxDetectors,   \* md.DetectorProfiles has 0..MaxDetectors entries
    ReadMayFail,    \* ioutil.ReadFile of a present file may fail (I/O error)
    RemoveMayFail   \* os.Remove may fail

VARIABLES
    accel,      \* "Software" (LocalTranscoder) or "Nvidia" (NvidiaTranscoder)
    opts,       \* the transcode options: [det, sign] per option
    pc,         \* "ffmpeg", "read", "sig", "rmsig", "keep", "done"
    i,          \* resToTranscodeData's loop index
    disk,       \* this call's temporary files present in the work dir
    segs,       \* options whose output became a segment, in order
    dets,       \* options whose detection data was collected, in order
    result,     \* "none", "data", "err" or "unrecoverable"
    rmFailed    \* some os.Remove of this call failed

vars == <<accel, opts, pc, i, disk, segs, dets, result, rmFailed>>

MaxOpts == MaxProfiles + MaxDetectors
Opt == [det : BOOLEAN, sign : BOOLEAN]

(* The files ffmpeg writes when it succeeds.                               *)
Outputs(o) ==
    {<<j, "out">> : j \in {k \in DOMAIN o : ~o[k].det}}
        \cup {<<j, "bin">> : j \in {k \in DOMAIN o : ~o[k].det /\ o[k].sign}}

TypeOK ==
    /\ accel \in {"Software", "Nvidia"}
    /\ opts \in Seq(Opt) /\ Len(opts) \in 1..MaxOpts
    /\ pc \in {"ffmpeg", "read", "sig", "rmsig", "keep", "done"}
    /\ i \in 1..MaxOpts
    /\ disk \subseteq (1..MaxOpts) \X {"out", "bin"}
    /\ segs \in Seq(1..MaxOpts)
    /\ dets \in Seq(1..MaxOpts)
    /\ result \in {"none", "data", "err", "unrecoverable"}
    /\ rmFailed \in BOOLEAN

(* np profile options (CalcSign = md.CalcPerceptualHash for each), then  *)
(* the nd detector options of detectorsToTranscodeOptions: a Detector and *)
(* no output file.                                                          *)
Options(np, nd, sign) ==
    [k \in 1..(np + nd) |-> [det |-> k > np, sign |-> sign /\ k <= np]]

(* Transcode builds its options; detectors only if md.DetectorEnabled.    *)
Init ==
    /\ accel \in {"Software", "Nvidia"}
    /\ \E np \in 1..MaxProfiles, nd \in 0..MaxDetectors, sign \in BOOLEAN :
          opts = Options(np, nd, sign)
    /\ pc = "ffmpeg"
    /\ i = 1
    /\ disk = {}
    /\ segs = <<>>
    /\ dets = <<>>
    /\ result = "none"
    /\ rmFailed = FALSE

(* Fault variant: no deferred recoverFromPanic; the panic crashes.        *)
Transcode3NoRecover ==
    /\ accel = "Software"
    /\ pc = "ffmpeg"
    /\ \/ /\ disk' = Outputs(opts)
          /\ pc' = "read"
          /\ UNCHANGED result
       \/ \E written \in SUBSET Outputs(opts), r \in {"err", "crash"} :
             /\ disk' = written
             /\ result' = r
             /\ pc' = "done"
    /\ UNCHANGED <<accel, opts, i, segs, dets, rmFailed>>

(* One ffmpeg run.  On success the length check of resToTranscodeData    *)
(* passes (one result per option) and its loop starts.  On an error       *)
(* Transcode returns it; on a panic the deferred recoverFromPanic sets    *)
(* retErr to an UnrecoverableError.  Neither removes the files written.   *)
RunFfmpeg ==
    /\ pc = "ffmpeg"
    /\ \/ /\ disk' = Outputs(opts)
          /\ pc' = "read"
          /\ UNCHANGED result
       \/ \E written \in SUBSET Outputs(opts), r \in {"err", "unrecoverable"} :
             /\ disk' = written
             /\ result' = r
             /\ pc' = "done"
    /\ UNCHANGED <<accel, opts, i, segs, dets, rmFailed>>

(* res, err := ffmpeg.Transcode3(in, opts); if err != nil return nil, err *)
Transcode3 ==
    /\ accel = "Software"
    /\ RunFfmpeg

(* res, err := nv.session.Transcode(in, out); if err != nil return nil, err *)
SessionTranscode ==
    /\ accel = "Nvidia"
    /\ RunFfmpeg

(* End of one iteration: the next option, or return the TranscodeData.   *)
NextOpt ==
    IF i = Len(opts)
      THEN pc' = "done" /\ result' = "data" /\ UNCHANGED i
      ELSE pc' = "read" /\ i' = i + 1 /\ UNCHANGED result

(* Loop body: a detector option contributes its DetectData; otherwise    *)
(* o, err := ioutil.ReadFile(oname), returning err on failure.            *)
ReadOutput ==
    /\ pc = "read"
    /\ IF opts[i].det
         THEN /\ dets' = Append(dets, i)
              /\ NextOpt
         ELSE /\ UNCHANGED dets
              /\ \/ /\ <<i, "out">> \in disk
                    /\ pc' = IF opts[i].sign THEN "sig" ELSE "keep"
                    /\ UNCHANGED <<i, result>>
                 \/ /\ ReadMayFail \/ <<i, "out">> \notin disk
                    /\ pc' = "done"
                    /\ result' = "err"
                    /\ UNCHANGED i
    /\ UNCHANGED <<accel, opts, disk, segs, rmFailed>>

(* s, err = ioutil.ReadFile(oname + ".bin"), returning err on failure.    *)
ReadSig ==
    /\ pc = "sig"
    /\ \/ /\ <<i, "bin">> \in disk
          /\ pc' = "rmsig"
          /\ UNCHANGED result
       \/ /\ ReadMayFail \/ <<i, "bin">> \notin disk
          /\ pc' = "done"
          /\ result' = "err"
    /\ UNCHANGED <<accel, opts, i, disk, segs, dets, rmFailed>>

(* Remove(f): the file is gone, or the removal fails and it stays.         *)
Removed(f) ==
    \/ disk' = disk \ {f} /\ UNCHANGED rmFailed
    \/ RemoveMayFail /\ disk' = disk /\ rmFailed' = TRUE

(* Fault variant: the signature file is not removed.                      *)
RemoveSigSkipped ==
    /\ pc = "rmsig"
    /\ pc' = "keep"
    /\ UNCHANGED <<accel, opts, i, disk, segs, dets, result, rmFailed>>

(* err = os.Remove(sigfile); a failure is only logged.                    *)
RemoveSig ==
    /\ pc = "rmsig"
    /\ Removed(<<i, "bin">>)
    /\ pc' = "keep"
    /\ UNCHANGED <<accel, opts, i, segs, dets, result>>

(* Fault variant: the segment is appended inside the CalcSign block.      *)
KeepSignedOnly ==
    /\ pc = "keep"
    /\ segs' = IF opts[i].sign THEN Append(segs, i) ELSE segs
    /\ Removed(<<i, "out">>)
    /\ NextOpt
    /\ UNCHANGED <<accel, opts, dets>>

(* segments = append(segments, ...); os.Remove(oname), error ignored.     *)
Keep ==
    /\ pc = "keep"
    /\ segs' = Append(segs, i)
    /\ Removed(<<i, "out">>)
    /\ NextOpt
    /\ UNCHANGED <<accel, opts, dets>>

Next == Transcode3 \/ SessionTranscode \/ ReadOutput \/ ReadSig \/ RemoveSig \/ Keep

Spec == Init /\ [][Next]_vars

-----------------------------------------------------------------------------
(* Properties *)

OptIndices(isDet) == SelectSeq([k \in 1..Len(opts) |-> k],
                               LAMBDA k : opts[k].det = isDet)

(* The TranscodeData returned has one segment per profile and one         *)
(* detection per detector, each in option order.                          *)
SegmentsFollowOpts ==
    result = "data" => segs = OptIndices(FALSE) /\ dets = OptIndices(TRUE)

(* A successful Transcode leaves none of its temporary files behind,      *)
(* unless an os.Remove itself failed.                                      *)
CleanOnSuccess ==
    result = "data" /\ ~rmFailed => disk = {}

(* Every return of Transcode, the error paths included, leaves none of    *)
(* its temporary files behind (unless an os.Remove itself failed).        *)
NoLeakOnExit ==
    pc = "done" /\ ~rmFailed => disk = {}

=============================================================================
