------------------------------ MODULE PffFile ------------------------------
(***************************************************************************)
(* The images of a PFF file and the search for the one of a given time     *)
(* (panoseti_util/pff.py).  time_seek() takes the times of the first and   *)
(* the last frame and interpolates: frames come every frame_time, but some *)
(* are missing and some were never filled.                                 *)
(*                                                                         *)
(* A file is the headers of its frames; pixels, JSON and the position of a *)
(* frame in bytes are left out.  Times are integers; that a quotient of    *)
(* floats may come out just below the integer it is stays in the model.    *)
(***************************************************************************)
EXTENDS Integers, Sequences, WhiteRabbit

CONSTANTS
  FrameTime,  (* frame_time                                                *)
  PerSecond,  (* units of time in a second                                 *)
  MaxFrames,  (* bound: frames from the start to the end of a file         *)
  Files       (* bound: the numbers of the frames that are not missing, from 0 *)

ASSUME PffAssumption ==
  /\ {FrameTime, PerSecond, MaxFrames} \subseteq Nat \ {0}
  /\ Seconds \subseteq Nat \ {0}
  /\ \A order \in Files :
       /\ order \in Seq(0..MaxFrames - 1) /\ order # <<>> /\ order[1] = 0
       /\ \A i, j \in DOMAIN order : i < j => order[j] - order[i] >= j - i

VARIABLES
  file,  (* headers, and, for the properties, when the frames were taken, the clock's error, missing frames *)
  seek   (* time_seek(): where it is, t, the frames around t with their times, frames looked at *)

pff == <<file, seek>>

NoTime == 0
NoFile == [headers |-> <<>>, taken |-> <<>>, skew |-> 0, missing |-> 0]
NoSeek == [at |-> "none", t |-> 0, min_f |-> 0, max_f |-> 0, min_t |-> 0, max_t |-> 0, probes |-> 0]

PffInit == file = NoFile /\ seek = NoSeek

-----------------------------------------------------------------------------
(* Headers                                                                 *)

Header(time, skew) ==
  [pkt_tai |-> PktTai(time \div PerSecond), pkt_nsec |-> time % PerSecond,
   tv_sec |-> time \div PerSecond + skew]

(* A frame that was never filled.                                          *)
ZeroHeader == [pkt_tai |-> 0, pkt_nsec |-> 0, tv_sec |-> 0]

(* pkt_header_time: wr_to_unix raises where wr_to_unix_decimal returns 0.  *)
HeaderTime(header) ==
  LET second == WrToUnix(header.pkt_tai, header.tv_sec)
  IN  IF second = NoTime THEN NoTime ELSE second * PerSecond + header.pkt_nsec

(* img_frame_time; frames are numbered from 0.                             *)
TimeAt(f) == HeaderTime(file.headers[f + 1])

LastFrame == Len(file.headers) - 1

-----------------------------------------------------------------------------
(* Frames after the first may be missing; one of the others may be zero.   *)
OpenFile(start, order, skew, zero) ==
  LET taken == [i \in DOMAIN order |-> start * PerSecond + FrameTime * order[i]]
  IN  /\ file' = [headers |-> [i \in DOMAIN order |->
                                 IF i = zero THEN ZeroHeader ELSE Header(taken[i], skew)],
                  taken |-> [i \in DOMAIN order |-> IF i = zero THEN NoTime ELSE taken[i]],
                  skew |-> skew,
                  missing |-> order[Len(order)] + 1 - Len(order)]
      /\ UNCHANGED seek

Found(f) == seek' = [seek EXCEPT !.at = "found", !.min_f = f]
Raised == seek' = [seek EXCEPT !.at = "raised"]

(* The times of the first and the last frame.  The loop over leading zero  *)
(* frames is never run: their time raises.                                 *)
ImgInfo == [first_t |-> TimeAt(0), last_t |-> TimeAt(LastFrame)]

TimeSeek(t) ==
  /\ file # NoFile /\ seek.at = "none"
  /\ LET first_t == ImgInfo.first_t
         last_t == ImgInfo.last_t
         begun == [NoSeek EXCEPT !.t = t]
     IN  seek' =
           IF NoTime \in {first_t, last_t} THEN [begun EXCEPT !.at = "raised"]
           ELSE IF t < first_t + FrameTime THEN [begun EXCEPT !.at = "found"]
           ELSE IF t > last_t - FrameTime THEN [begun EXCEPT !.at = "found", !.min_f = LastFrame]
           ELSE [begun EXCEPT !.at = "seeking", !.max_f = LastFrame, !.min_t = first_t, !.max_t = last_t]
  /\ UNCHANGED file

(* Where t is if the frames between the two were evenly spaced.            *)
Interpolated ==
  LET range == (seek.t - seek.min_t) * (seek.max_f - seek.min_f)
      whole == range \div (seek.max_t - seek.min_t)
  IN  {seek.min_f + whole} \cup
      (IF range % (seek.max_t - seek.min_t) = 0 THEN {seek.min_f + whole - 1} ELSE {})

(* Mutation: the time of the frame is not remembered.                      *)
NarrowFrame(f, time) ==
  seek' = IF time < seek.t - FrameTime THEN [seek EXCEPT !.min_f = f, !.probes = @ + 1]
          ELSE [seek EXCEPT !.max_f = f, !.probes = @ + 1]

Narrow(f, time) ==
  seek' = IF time < seek.t - FrameTime THEN [seek EXCEPT !.min_f = f, !.min_t = time, !.probes = @ + 1]
          ELSE [seek EXCEPT !.max_f = f, !.max_t = time, !.probes = @ + 1]

(* The frame is looked at, unless it is next to one of the two.            *)
Probe ==
  /\ seek.at = "seeking"
  /\ \E f \in Interpolated :
       \/ f <= seek.min_f + 1 /\ Found(seek.min_f)
       \/ f > seek.min_f + 1 /\ f >= seek.max_f - 1 /\ Found(f)
       \/ /\ f > seek.min_f + 1 /\ f < seek.max_f - 1
          /\ LET time == TimeAt(f)
             IN  \/ time = NoTime /\ Raised
                 \/ time # NoTime /\ time \in (seek.t - FrameTime)..(seek.t + FrameTime - 1) /\ Found(f)
                 \/ time # NoTime /\ time \notin (seek.t - FrameTime)..(seek.t + FrameTime - 1) /\ Narrow(f, time)
  /\ UNCHANGED file

CloseFile ==
  /\ seek.at \in {"found", "raised"}
  /\ file' = NoFile /\ seek' = NoSeek

Times(start) == (start * PerSecond - 1)..(start * PerSecond + FrameTime * MaxFrames)

PffNext ==
  \/ /\ file = NoFile
     /\ \E start \in Seconds, order \in Files, skew \in Skews :
          \E zero \in 0..Len(order) : OpenFile(start, order, skew, zero)
  \/ \E start \in Seconds : \E t \in Times(start) : TimeSeek(t)
  \/ Probe \/ CloseFile

PffSpec == PffInit /\ [][PffNext]_pff

-----------------------------------------------------------------------------
(* The time of every frame, from the 10 bits of its White Rabbit time and  *)
(* the clock of the DAQ node, is the time it was taken, also around a wrap *)
(* of the 10 bits, if that clock is at most a second off; if it is further *)
(* off, or the frame was never filled, it has none, never a wrong one.     *)
TimesTrue ==
  \A f \in 0..LastFrame :
    TimeAt(f) = IF file.skew \in -1..1 THEN file.taken[f + 1] ELSE NoTime

Abs(x) == IF x < 0 THEN -x ELSE x

(* "Position it to a frame whose time is close to t": a search that ends   *)
(* has found a frame of the file, whose time is off by no more than two    *)
(* frames and those that are missing; while it goes on the time lies       *)
(* between its two frames, and these come closer with each frame it reads, *)
(* so that it ends.                                                        *)
SeekClose ==
  /\ seek.at = "found" =>
       /\ seek.min_f \in 0..LastFrame
       /\ TimeAt(seek.min_f) # NoTime /\ seek.t \in TimeAt(0)..TimeAt(LastFrame) =>
            Abs(TimeAt(seek.min_f) - seek.t) <= (2 + file.missing) * FrameTime
  /\ seek.at = "seeking" =>
       /\ seek.min_t + FrameTime <= seek.t /\ seek.t <= seek.max_t - FrameTime
       /\ seek.min_t = TimeAt(seek.min_f) /\ seek.max_t = TimeAt(seek.max_f)
       /\ 2 * seek.probes + seek.max_f - seek.min_f <= LastFrame
=============================================================================
