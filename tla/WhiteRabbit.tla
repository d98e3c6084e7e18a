---------------------------- MODULE WhiteRabbit ----------------------------
(***************************************************************************)
(* The time of a frame.  A packet carries the low 10 bits of the White     *)
(* Rabbit time in seconds (TAI, 37 s ahead of Unix time), the DAQ node     *)
(* adds its own Unix time tv_sec, and the two together give the second at  *)
(* which the packet was taken.                                             *)
(*                                                                         *)
(* Abstract: the fraction of the second, which is taken over from the      *)
(* packet, and the numeric types that distinguish the three versions.      *)
(***************************************************************************)
EXTENDS Integers

CONSTANTS
  Seconds,  (* the times at which frames are taken                         *)
  Skews     (* by how much the DAQ node's clock is wrong                   *)

(* The 10 bits tell errors of up to 1022 s from an error of none.          *)
ASSUME WhiteRabbitAssumption == Seconds \subseteq Int /\ Skews \subseteq -1022..1022

Leap == 37
PktTaiModulus == 1024

(* What a packet taken at Unix time s carries.                             *)
PktTai(s) == (s + Leap) % PktTaiModulus

(* How far the two clocks are apart, as far as 10 bits tell.               *)
(* Mutation: the packet's time is taken for Unix time.                     *)
ApartNoLeap(pkt_tai, tv_sec) == (tv_sec - pkt_tai) % PktTaiModulus
Apart(pkt_tai, tv_sec) == (tv_sec - pkt_tai + Leap) % PktTaiModulus

(* 0 stands for "no time": the clocks are out of step.                     *)
WrToUnix(pkt_tai, tv_sec) ==
  IF Apart(pkt_tai, tv_sec) = 0 THEN tv_sec
  ELSE IF Apart(pkt_tai, tv_sec) = 1 THEN tv_sec - 1
  ELSE IF Apart(pkt_tai, tv_sec) = 1023 THEN tv_sec + 1
  ELSE 0

(* The time given to a packet taken at s on a node whose clock is k off.   *)
WrTimeOf(s, k) == WrToUnix(PktTai(s), s + k)

(* The White Rabbit time a frame is given is the second it was taken in    *)
(* when the node's clock is at most a second off, and no time, never a     *)
(* wrong one, when it is further off.                                      *)
WrTimeTrue ==
  \A s \in Seconds, k \in Skews : WrTimeOf(s, k) = IF k \in -1..1 THEN s ELSE 0
=============================================================================
