-------------------------- MODULE WatermarkTracker --------------------------
(***************************************************************************)
(* The watermark tracker of an operator with several input channels        *)
(* (crates/flume-runtime/src/watermark.rs).                                *)
(***************************************************************************)
EXTENDS EventTimestamps, FiniteSets, FiniteSetsExt

VARIABLES
  inputWatermarks,  (* input_watermarks, one per channel                    *)
  trackerWatermark, (* current_watermark                                    *)
  out               (* history: what each update returned                   *)

Least == Min({inputWatermarks'[i] : i \in DOMAIN inputWatermarks})

(* Mutant: the watermark of the channel that moved is emitted. *)
Update_Own(i, t) ==
  /\ inputWatermarks' = [inputWatermarks EXCEPT ![i] = t]
  /\ trackerWatermark' = Later(t, trackerWatermark)
  /\ out' = Append(out, IF t > trackerWatermark THEN <<Watermark(t)>> ELSE <<>>)

(* A channel's watermark is overwritten even when it goes back. *)
Update(i, t) ==
  /\ inputWatermarks' = [inputWatermarks EXCEPT ![i] = t]
  /\ trackerWatermark' = Later(Least, trackerWatermark)
  /\ out' = Append(out, IF Least > trackerWatermark THEN <<Watermark(Least)>> ELSE <<>>)
=============================================================================
