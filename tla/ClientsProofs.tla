--------------------------- MODULE ClientsProofs ---------------------------
(* The side of the clients.  The frames of every file have their right     *)
(* times: the White Rabbit time is right for every second and every clock  *)
(* error, and every header is one the time can be read from.  What calls   *)
(* return is true of the server, and streams are merged without a mix-up.  *)
EXTENDS Clients, PffFile, SequenceTheorems, FiniteSetTheorems, TLAPS

(* The difference wr_to_unix computes is the clock's error modulo 1024:    *)
(* the leap seconds and the second itself cancel.                          *)
LEMMA Difference ==
  ASSUME NEW s \in Int, NEW k \in Int
  PROVE  Apart(PktTai(s), s + k) = k % PktTaiModulus
<1> DEFINE q == (s + 37) \div 1024
<1>1. q \in Int /\ (s + 37) % 1024 = s + 37 - 1024 * q
  BY SMT
<1>2. (k + 1024 * q) % 1024 = k % 1024
  BY <1>1, SMT
<1>3. s + k - (s + 37 - 1024 * q) + 37 = k + 1024 * q
  BY <1>1, SMT
<1> QED BY <1>1, <1>2, <1>3 DEF Apart, PktTai, Leap, PktTaiModulus

(* wr_to_unix_decimal() for one packet.                                    *)
LEMMA OneTime ==
  ASSUME NEW s \in Int, NEW k \in Int, -1022 <= k, k <= 1022
  PROVE  WrTimeOf(s, k) = IF k \in -1..1 THEN s ELSE 0
<1>1. Apart(PktTai(s), s + k) = k % PktTaiModulus
  BY Difference
<1>2. k % PktTaiModulus = IF k >= 0 THEN k ELSE k + 1024
  BY SMT DEF PktTaiModulus
<1> QED BY <1>1, <1>2, SMT DEF WrTimeOf, WrToUnix

(* wr_to_unix_decimal() gives the second the packet was taken in when the  *)
(* node's clock is at most a second off, and no time, never a wrong one,   *)
(* when it is off by up to 1022 s either way.                              *)
THEOREM WrTime == WrTimeTrue
<1> SUFFICES ASSUME NEW s \in Seconds, NEW k \in Skews
             PROVE  WrTimeOf(s, k) = IF k \in -1..1 THEN s ELSE 0
  BY DEF WrTimeTrue
<1>1. s \in Int /\ k \in Int /\ -1022 <= k /\ k <= 1022
  BY WhiteRabbitAssumption, SMT
<1> QED BY <1>1, OneTime

-----------------------------------------------------------------------------
(* A frame that was never filled has no time.                              *)
LEMMA ZeroTime == HeaderTime(ZeroHeader) = NoTime
BY DEF HeaderTime, ZeroHeader, NoTime, WrToUnix, Apart, Leap, PktTaiModulus

(* img_header_time() of one filled frame.                                  *)
LEMMA FilledTime ==
  ASSUME NEW time \in Int, time >= PerSecond, NEW skew \in Skews
  PROVE  HeaderTime(Header(time, skew)) = IF skew \in -1..1 THEN time ELSE NoTime
<1> DEFINE s == time \div PerSecond
           n == time % PerSecond
<1>1. PerSecond \in Nat /\ PerSecond > 0
  BY PffAssumption
<1>2. skew \in Int /\ -1022 <= skew /\ skew <= 1022
  BY WhiteRabbitAssumption
<1>3. s \in Int /\ n \in Int /\ s * PerSecond + n = time /\ s >= 1
  BY <1>1, SMT
<1>4. WrToUnix(PktTai(s), s + skew) = IF skew \in -1..1 THEN s ELSE 0
  BY <1>2, <1>3, OneTime DEF WrTimeOf
<1>5. HeaderTime(Header(time, skew)) =
        LET second == WrToUnix(PktTai(s), s + skew)
        IN  IF second = NoTime THEN NoTime ELSE second * PerSecond + n
  BY DEF HeaderTime, Header
<1>6. CASE skew \in -1..1
  BY <1>3, <1>4, <1>5, <1>6 DEF NoTime
<1>7. CASE skew \notin -1..1
  BY <1>4, <1>5, <1>7 DEF NoTime
<1> QED BY <1>6, <1>7

(* What the file holds: filled and zero frames, in the order of the numbers.*)
Written ==
  \A i \in 1..Len(file.headers) :
    \/ file.headers[i] = ZeroHeader /\ file.taken[i] = NoTime
    \/ /\ file.taken[i] \in Int /\ file.taken[i] >= PerSecond
       /\ file.skew \in Skews
       /\ file.headers[i] = Header(file.taken[i], file.skew)

(* The inductive invariant of the file.                                    *)
PffInv == Len(file.headers) \in Nat /\ Written

(* pff.py gives every frame of every file its time, or none.               *)
LEMMA WrittenTimes == PffInv => TimesTrue
<1> SUFFICES ASSUME PffInv, NEW f \in 0..LastFrame
             PROVE  TimeAt(f) = IF file.skew \in -1..1 THEN file.taken[f + 1] ELSE NoTime
  BY DEF TimesTrue
<1>1. f + 1 \in 1..Len(file.headers)
  BY DEF LastFrame, PffInv
<1>2. CASE file.headers[f + 1] = ZeroHeader /\ file.taken[f + 1] = NoTime
  BY <1>2, ZeroTime DEF TimeAt
<1>3. CASE /\ file.taken[f + 1] \in Int /\ file.taken[f + 1] >= PerSecond
           /\ file.skew \in Skews
           /\ file.headers[f + 1] = Header(file.taken[f + 1], file.skew)
  BY <1>3, FilledTime DEF TimeAt
<1> QED BY <1>1, <1>2, <1>3 DEF PffInv, Written

(* Files are written as Header and ZeroHeader say.                         *)
LEMMA OpenWritten ==
  ASSUME NEW start \in Seconds, NEW order \in Files, NEW skew \in Skews,
         NEW zero \in 0..Len(order), OpenFile(start, order, skew, zero)
  PROVE  PffInv'
<1> DEFINE taken == [i \in DOMAIN order |-> start * PerSecond + FrameTime * order[i]]
<1>1. order \in Seq(0..MaxFrames - 1) /\ start \in Nat \ {0}
      /\ PerSecond \in Nat \ {0} /\ FrameTime \in Nat \ {0}
  BY PffAssumption
<1>2. DOMAIN order = 1..Len(order) /\ Len(order) \in Nat
  BY <1>1
<1>3. /\ file'.headers = [i \in DOMAIN order |-> IF i = zero THEN ZeroHeader ELSE Header(taken[i], skew)]
      /\ file'.taken = [i \in DOMAIN order |-> IF i = zero THEN NoTime ELSE taken[i]]
      /\ file'.skew = skew
  BY DEF OpenFile
<1>4. Len(file'.headers) = Len(order)
  <2> DEFINE e(i) == IF i = zero THEN ZeroHeader ELSE Header(taken[i], skew)
  <2>1. file'.headers = [i \in 1..Len(order) |-> e(i)]
    BY <1>2, <1>3
  <2> HIDE DEF e
  <2> QED BY <1>2, <2>1
<1>5. ASSUME NEW i \in 1..Len(order)
      PROVE  taken[i] \in Int /\ taken[i] >= PerSecond
  <2>1. order[i] \in 0..MaxFrames - 1 /\ MaxFrames \in Nat
    BY <1>1, ElementOfSeq, PffAssumption
  <2>2. start * PerSecond \in Nat /\ start * PerSecond >= PerSecond /\ FrameTime * order[i] \in Nat
    BY <1>1, <2>1, SMT
  <2>3. taken[i] = start * PerSecond + FrameTime * order[i]
    BY <1>2
  <2> HIDE DEF taken
  <2> QED BY <1>1, <2>2, <2>3
<1> HIDE DEF taken
<1>6. ASSUME NEW i \in 1..Len(order)
      PROVE  \/ file'.headers[i] = ZeroHeader /\ file'.taken[i] = NoTime
             \/ /\ file'.taken[i] \in Int /\ file'.taken[i] >= PerSecond
                /\ file'.skew \in Skews
                /\ file'.headers[i] = Header(file'.taken[i], file'.skew)
  BY <1>2, <1>3, <1>5, <1>6
<1> QED BY <1>2, <1>4, <1>6 DEF PffInv, Written

(* Products with a length are ordered as their other factors.              *)
LEMMA Monotone ==
  ASSUME NEW x \in Int, NEW y \in Int, x <= y, NEW z \in Nat
  PROVE  x * z <= y * z
BY SMT

(* Times are integers, and those of two filled frames are apart by as many *)
(* frames as there are between them, and at most by the missing ones more. *)
Spaced ==
  /\ file.missing \in Nat
  /\ \A i, j \in 1..Len(file.headers) :
       i < j /\ file.taken[i] # NoTime /\ file.taken[j] # NoTime =>
         /\ (j - i) * FrameTime <= file.taken[j] - file.taken[i]
         /\ file.taken[j] - file.taken[i] <= (j - i + file.missing) * FrameTime

(* Numbers that grow grow by no more than there are numbers left out.      *)
LEMMA Gaps ==
  ASSUME NEW order \in Files, NEW i \in 1..Len(order), NEW j \in 1..Len(order), i < j
  PROVE  /\ order[i] \in Nat /\ order[j] \in Nat
         /\ order[Len(order)] + 1 - Len(order) \in Nat
         /\ j - i <= order[j] - order[i]
         /\ order[j] - order[i] <= j - i + (order[Len(order)] + 1 - Len(order))
<1> DEFINE n == Len(order)
<1>1. /\ order \in Seq(0..MaxFrames - 1) /\ order[1] = 0 /\ MaxFrames \in Nat
      /\ \A k, l \in DOMAIN order : k < l => order[l] - order[k] >= l - k
  BY PffAssumption
<1>2. DOMAIN order = 1..n /\ n \in Nat /\ i \in Nat /\ j \in Nat /\ 1 <= i /\ j <= n
  BY <1>1
<1>3. \A k \in 1..n : order[k] \in Nat
  BY <1>1, ElementOfSeq
<1>4. \A k, l \in 1..n : k <= l => order[l] - order[k] >= l - k
  <2> SUFFICES ASSUME NEW k \in 1..n, NEW l \in 1..n, k <= l
               PROVE  order[l] - order[k] >= l - k
    OBVIOUS
  <2>1. CASE k = l
    BY <1>3, <2>1
  <2>2. CASE k < l
    BY <1>1, <1>2, <2>2
  <2> QED BY <2>1, <2>2
<1>5. PICK x \in Nat, y \in Nat, z \in Nat : x = order[i] /\ y = order[j] /\ z = order[n]
  BY <1>2, <1>3
<1>6. x - 0 >= i - 1 /\ z - y >= n - j /\ y - x >= j - i
  <2>1. 1 \in 1..n /\ n \in 1..n
    BY <1>2
  <2>2. order[i] - order[1] >= i - 1 /\ order[n] - order[j] >= n - j /\ order[j] - order[i] >= j - i
    BY <1>2, <1>4, <2>1
  <2> QED BY <1>1, <1>5, <2>2
<1>7. 1 <= n
  BY <1>2
<1> HIDE DEF n
<1>8. z + 1 - n \in Nat /\ y - x <= j - i + (z + 1 - n)
  BY <1>2, <1>6, <1>7
<1> QED BY <1>5, <1>6, <1>8 DEF n

(* A file of one frame has left out none.                                  *)
LEMMA NoneMissing ==
  ASSUME NEW order \in Files
  PROVE  order[Len(order)] + 1 - Len(order) \in Nat
<1>1. order \in Seq(0..MaxFrames - 1) /\ order # <<>> /\ order[1] = 0
  BY PffAssumption
<1>2. Len(order) \in Nat /\ Len(order) >= 1
  BY <1>1
<1>3. CASE Len(order) = 1
  BY <1>1, <1>3
<1>4. CASE Len(order) > 1
  <2>1. 1 \in 1..Len(order) /\ Len(order) \in 1..Len(order) /\ 1 < Len(order)
    BY <1>2, <1>4
  <2>2. 1 < Len(order)
    BY <2>1
  <2> QED BY <2>1, <2>2, Gaps
<1>5. PICK n \in Nat : n = Len(order) /\ n >= 1
  BY <1>2
<1>6. n = 1 \/ n > 1
  BY <1>5
<1> QED BY <1>3, <1>4, <1>5, <1>6

(* Files are opened as Spaced says.                                        *)
LEMMA OpenSpaced ==
  ASSUME NEW start \in Seconds, NEW order \in Files, NEW skew \in Skews,
         NEW zero \in 0..Len(order), OpenFile(start, order, skew, zero)
  PROVE  Spaced'
<1> DEFINE taken == [i \in DOMAIN order |-> start * PerSecond + FrameTime * order[i]]
           gaps == order[Len(order)] + 1 - Len(order)
<1>1. /\ order \in Seq(0..MaxFrames - 1) /\ start \in Nat \ {0}
      /\ PerSecond \in Nat \ {0} /\ FrameTime \in Nat \ {0}
  BY PffAssumption
<1>2. DOMAIN order = 1..Len(order) /\ Len(order) \in Nat
  BY <1>1
<1>3. /\ file'.headers = [i \in 1..Len(order) |-> IF i = zero THEN ZeroHeader ELSE Header(taken[i], skew)]
      /\ file'.taken = [i \in 1..Len(order) |-> IF i = zero THEN NoTime ELSE taken[i]]
      /\ file'.missing = gaps
  BY <1>2 DEF OpenFile
<1>4. Len(file'.headers) = Len(order)
  <2> DEFINE e(i) == IF i = zero THEN ZeroHeader ELSE Header(taken[i], skew)
  <2>1. file'.headers = [i \in 1..Len(order) |-> e(i)]
    BY <1>3
  <2> HIDE DEF e
  <2> QED BY <1>2, <2>1
<1>5. gaps \in Nat
  BY NoneMissing
<1>6. ASSUME NEW i \in 1..Len(order), NEW j \in 1..Len(order), i < j,
             file'.taken[i] # NoTime, file'.taken[j] # NoTime
      PROVE  /\ (j - i) * FrameTime <= file'.taken[j] - file'.taken[i]
             /\ file'.taken[j] - file'.taken[i] <= (j - i + gaps) * FrameTime
  <2>1. PICK x \in Nat, y \in Nat : x = order[i] /\ y = order[j]
    BY <1>6, Gaps
  <2>2. j - i <= y - x /\ y - x <= j - i + gaps
    BY <1>6, <2>1, Gaps
  <2>3. file'.taken[i] = start * PerSecond + FrameTime * x /\ file'.taken[j] = start * PerSecond + FrameTime * y
    BY <1>2, <1>3, <1>6, <2>1
  <2> HIDE DEF gaps, taken
  <2>4. file'.taken[j] - file'.taken[i] = (y - x) * FrameTime
    <3>1. PICK b \in Nat : b = start * PerSecond
      BY <1>1
    <3> QED BY <1>1, <2>3, <3>1
  <2> QED BY <1>1, <1>2, <1>5, <2>2, <2>4, Monotone
<1> QED BY <1>3, <1>4, <1>5, <1>6 DEF Spaced

(* pff.py gives every frame of every file the time at which it was taken   *)
(* if the clock of the DAQ node is at most a second off, and no time if it *)
(* is further off or the frame was never filled.                           *)
THEOREM FramesTimed == PffSpec => []TimesTrue
<1>1. PffInit => PffInv
  BY DEF PffInit, PffInv, Written, NoFile
<1>2. PffInv /\ [PffNext]_pff => PffInv'
  <2> SUFFICES ASSUME PffInv, [PffNext]_pff PROVE PffInv'
    OBVIOUS
  <2>1. CASE UNCHANGED file
    BY <2>1 DEF PffInv, Written
  <2>2. CASE \E start \in Seconds, order \in Files, skew \in Skews :
               \E zero \in 0..Len(order) : OpenFile(start, order, skew, zero)
    BY <2>2, OpenWritten
  <2>3. CASE CloseFile
    BY <2>3 DEF CloseFile, PffInv, Written, NoFile
  <2>4. CASE \E start \in Seconds : \E t \in Times(start) : TimeSeek(t)
    BY <2>1, <2>4 DEF TimeSeek
  <2>5. CASE Probe
    BY <2>1, <2>5 DEF Probe
  <2> QED BY <2>1, <2>2, <2>3, <2>4, <2>5 DEF PffNext, pff
<1> QED BY <1>1, <1>2, WrittenTimes, PTL DEF PffSpec

-----------------------------------------------------------------------------
(* The search                                                              *)

(* A search that goes on is between two filled frames of the file.         *)
Seeking ==
  seek.at = "seeking" =>
    /\ seek.min_f \in 0..LastFrame /\ seek.max_f \in 0..LastFrame /\ seek.min_f < seek.max_f
    /\ seek.min_t = TimeAt(seek.min_f) /\ seek.max_t = TimeAt(seek.max_f)
    /\ seek.min_t # NoTime /\ seek.max_t # NoTime
    /\ seek.min_t + FrameTime <= seek.t /\ seek.t <= seek.max_t - FrameTime
    /\ seek.probes \in Nat /\ 2 * seek.probes + seek.max_f - seek.min_f <= LastFrame

(* A search that is over has found a frame close to the time.              *)
FoundClose ==
  seek.at = "found" =>
    /\ seek.min_f \in 0..LastFrame
    /\ TimeAt(seek.min_f) # NoTime /\ seek.t \in TimeAt(0)..TimeAt(LastFrame) =>
         Abs(TimeAt(seek.min_f) - seek.t) <= (2 + file.missing) * FrameTime

(* What a search keeps.                                                    *)
SeekTypes ==
  seek \in [at : {"none", "seeking", "found", "raised"}, t : Int, min_f : Int, max_f : Int,
            min_t : Int, max_t : Int, probes : Int]

(* A file has a frame.                                                     *)
Nonempty == file # NoFile => LastFrame >= 0

(* The inductive invariant of the search.                                  *)
SeekInv ==
  /\ PffInv /\ Spaced /\ SeekTypes /\ Nonempty
  /\ file = NoFile => seek.at = "none"
  /\ Seeking /\ FoundClose

(* That is what SeekClose says.                                            *)
LEMMA InvCloses == SeekInv => SeekClose
BY DEF SeekInv, Seeking, FoundClose, SeekClose

(* The times of two filled frames, by their numbers.                       *)
LEMMA Spread ==
  ASSUME SeekInv, NEW f \in 0..LastFrame, NEW g \in 0..LastFrame, f < g,
         TimeAt(f) # NoTime, TimeAt(g) # NoTime
  PROVE  /\ TimeAt(f) \in Int /\ TimeAt(g) \in Int
         /\ (g - f) * FrameTime <= TimeAt(g) - TimeAt(f)
         /\ TimeAt(g) - TimeAt(f) <= (g - f + file.missing) * FrameTime
<1>1. TimesTrue /\ PffInv /\ Spaced
  BY WrittenTimes DEF SeekInv
<1>2. TimeAt(f) = file.taken[f + 1] /\ TimeAt(g) = file.taken[g + 1]
  BY <1>1 DEF TimesTrue
<1>3. f + 1 \in 1..Len(file.headers) /\ g + 1 \in 1..Len(file.headers) /\ f + 1 < g + 1
  BY <1>1 DEF PffInv, LastFrame
<1>4. file.taken[f + 1] \in Int /\ file.taken[g + 1] \in Int
  BY <1>1, <1>3 DEF PffInv, Written, NoTime
<1>5. (g + 1) - (f + 1) = g - f
  BY <1>1 DEF PffInv, LastFrame
<1>6. /\ ((g + 1) - (f + 1)) * FrameTime <= file.taken[g + 1] - file.taken[f + 1]
      /\ file.taken[g + 1] - file.taken[f + 1] <= ((g + 1) - (f + 1) + file.missing) * FrameTime
  BY <1>1, <1>2, <1>3 DEF Spaced
<1> QED BY <1>2, <1>4, <1>5, <1>6

(* The time of a frame is an integer.                                      *)
LEMMA TimeIsInt ==
  ASSUME SeekInv, NEW f \in 0..LastFrame
  PROVE  TimeAt(f) \in Int
<1>1. TimesTrue /\ PffInv
  BY WrittenTimes DEF SeekInv
<1>2. f + 1 \in 1..Len(file.headers)
  BY <1>1 DEF PffInv, LastFrame
<1>3. file.taken[f + 1] \in Int
  BY <1>1, <1>2 DEF PffInv, Written, NoTime
<1> QED BY <1>1, <1>3 DEF TimesTrue, NoTime

(* Interpolation: the time lies at or between the frame that is chosen and *)
(* the next, if frames were evenly spaced, and that frame is in front of   *)
(* the later of the two.                                                   *)
LEMMA Evenly ==
  ASSUME NEW a \in Nat, NEW d \in Nat, NEW n \in Nat, a < d, n > 0,
         NEW w \in {(a * n) \div d} \cup (IF (a * n) % d = 0 THEN {(a * n) \div d - 1} ELSE {}), a > 0
  PROVE  w \in Int /\ w * d <= a * n /\ a * n <= (w + 1) * d /\ w < n
<1>1. PICK r \in Nat : r = a * n
  BY SMT
<1>2. PICK q \in Nat, m \in Nat : q = r \div d /\ m = r % d
  BY SMT
<1>3. r = q * d + m /\ m < d
  BY <1>2, SMT
<1>4. r < d * n
  BY <1>1, SMT
<1>5. q < n
  BY <1>3, <1>4, SMT
<1>6. CASE w = q
  <2>1. (w + 1) * d = w * d + d
    BY <1>6, SMT
  <2> QED BY <1>1, <1>3, <1>5, <1>6, <2>1, SMT
<1>7. CASE m = 0 /\ w = q - 1
  <2>1. (w + 1) * d = q * d /\ w * d = q * d - d
    BY <1>7, SMT
  <2> QED BY <1>1, <1>3, <1>5, <1>7, <2>1, SMT
<1> QED BY <1>1, <1>2, <1>6, <1>7

(* Close from below: at most a frame away by interpolation.                *)
LEMMA Below ==
  ASSUME NEW a \in Nat, NEW d \in Nat, NEW n \in Nat, NEW m \in Nat, NEW l \in Nat,
         NEW w \in Int, n > 0, a <= d, d <= (n + m) * l, w <= 1, a * n <= (w + 1) * d
  PROVE  a <= (2 + m) * l
<1>1. a * n <= 2 * d
  <2>1. (w + 1) * d <= 2 * d
    BY Monotone
  <2> QED BY <2>1, SMT
<1>2. CASE n = 1
  <2>1. (1 + m) * l <= (2 + m) * l
    BY Monotone
  <2> QED BY <1>2, <2>1, SMT
<1>3. CASE n > 1
  <2>1. 2 * d <= 2 * ((n + m) * l)
    BY SMT
  <2>2. 2 * (n + m) <= n * (2 + m)
    <3>1. 2 * m <= n * m
      BY <1>3, Monotone
    <3> QED BY <3>1, SMT
  <2>3. (2 * (n + m)) * l <= (n * (2 + m)) * l
    BY <2>2, Monotone
  <2>4. PICK b \in Nat : b = (2 + m) * l
    BY SMT
  <2>5. (n * (2 + m)) * l = b * n /\ 2 * ((n + m) * l) = (2 * (n + m)) * l
    BY <2>4, SMT
  <2>6. a * n <= b * n
    BY <1>1, <2>1, <2>3, <2>5, SMT
  <2>7. a <= b
    <3>1. SUFFICES ASSUME b + 1 <= a PROVE FALSE
      BY SMT
    <3>2. (b + 1) * n <= a * n
      BY <3>1, Monotone
    <3> QED BY <1>3, <2>6, <3>2, SMT
  <2> QED BY <2>4, <2>7
<1> QED BY <1>2, <1>3, SMT

(* Close from above: the last frame but one by interpolation.              *)
LEMMA Above ==
  ASSUME NEW a \in Nat, NEW d \in Nat, NEW n \in Nat, NEW m \in Nat, NEW l \in Nat,
         n > 0, a <= d, d <= (n + m) * l, (n - 1) * d <= a * n
  PROVE  d - a <= (1 + m) * l
<1>1. PICK b \in Nat : b = d - a
  BY SMT
<1>2. b * n <= d
  <2>1. b * n = d * n - a * n /\ (n - 1) * d = d * n - d
    BY <1>1, SMT
  <2> QED BY <2>1, SMT
<1>3. (n + m) * l <= (n * (1 + m)) * l
  <2>1. 1 * m <= n * m
    BY Monotone
  <2>2. n + m <= n * (1 + m)
    BY <2>1, SMT
  <2> QED BY <2>2, Monotone
<1>4. PICK c \in Nat : c = (1 + m) * l
  BY SMT
<1>5. (n * (1 + m)) * l = c * n
  BY <1>4, SMT
<1>6. b * n <= c * n
  BY <1>2, <1>3, <1>5, SMT
<1>7. b <= c
  <2>1. SUFFICES ASSUME c + 1 <= b PROVE FALSE
    BY SMT
  <2>2. (c + 1) * n <= b * n
    BY <2>1, Monotone
  <2> QED BY <1>6, <2>2, SMT
<1> QED BY <1>1, <1>4, <1>7

(* So it is opened.                                                        *)
LEMMA OpenNonempty ==
  ASSUME NEW start \in Seconds, NEW order \in Files, NEW skew \in Skews,
         NEW zero \in 0..Len(order), OpenFile(start, order, skew, zero)
  PROVE  Nonempty'
<1> DEFINE taken == [i \in DOMAIN order |-> start * PerSecond + FrameTime * order[i]]
           e(i) == IF i = zero THEN ZeroHeader ELSE Header(taken[i], skew)
<1>1. order \in Seq(0..MaxFrames - 1) /\ order # <<>>
  BY PffAssumption
<1>2. PICK n \in Nat : n = Len(order) /\ n >= 1 /\ DOMAIN order = 1..n
  BY <1>1
<1>3. file'.headers = [i \in 1..n |-> e(i)]
  BY <1>2 DEF OpenFile
<1> HIDE DEF e
<1>4. Len(file'.headers) = n
  BY <1>2, <1>3
<1> QED BY <1>2, <1>4 DEF Nonempty, LastFrame

(* The search begins between the first and the last frame, or is over.     *)
LEMMA TimeSeekInv ==
  ASSUME SeekInv, NEW t \in Int, TimeSeek(t)
  PROVE  SeekInv'
<1> DEFINE first_t == TimeAt(0)
           last_t == TimeAt(LastFrame)
           begun == [NoSeek EXCEPT !.t = t]
<1>1. file # NoFile /\ seek.at = "none" /\ file' = file /\ FrameTime \in Nat \ {0}
  BY PffAssumption DEF TimeSeek
<1>2. PffInv' /\ Spaced' /\ Nonempty' /\ LastFrame' = LastFrame /\ (\A f : TimeAt(f)' = TimeAt(f))
  BY <1>1 DEF SeekInv, PffInv, Written, Spaced, Nonempty, LastFrame, TimeAt
<1>3. begun = [at |-> "none", t |-> t, min_f |-> 0, max_f |-> 0, min_t |-> 0, max_t |-> 0, probes |-> 0]
  BY DEF NoSeek
<1>4. LastFrame \in Int /\ (LastFrame >= 0 => first_t \in Int /\ last_t \in Int)
  <2>1. LastFrame \in Int
    BY DEF SeekInv, PffInv, LastFrame
  <2>2. LastFrame >= 0 => 0 \in 0..LastFrame /\ LastFrame \in 0..LastFrame
    BY <2>1
  <2> QED BY <2>1, <2>2, TimeIsInt
<1>5. LastFrame >= 0
  BY <1>1 DEF SeekInv, Nonempty
<1>6. file.missing \in Nat /\ FrameTime <= (2 + file.missing) * FrameTime
  <2>1. file.missing \in Nat
    BY DEF SeekInv, Spaced
  <2>2. 1 * FrameTime <= (2 + file.missing) * FrameTime
    BY <1>1, <2>1, Monotone
  <2> QED BY <1>1, <2>1, <2>2
<1> HIDE DEF begun
<1>7. CASE NoTime \in {first_t, last_t}
  <2>1. seek' = [begun EXCEPT !.at = "raised"]
    BY <1>7 DEF TimeSeek, ImgInfo, begun
  <2> QED BY <1>1, <1>2, <1>3, <2>1 DEF SeekInv, SeekTypes, Seeking, FoundClose
<1>8. CASE NoTime \notin {first_t, last_t} /\ t < first_t + FrameTime
  <2>1. seek' = [begun EXCEPT !.at = "found"]
    BY <1>8 DEF TimeSeek, ImgInfo, begun
  <2>2. seek'.at = "found" /\ seek'.min_f = 0 /\ seek'.t = t
    BY <1>3, <2>1
  <2>3. t \in first_t..last_t => Abs(first_t - t) <= FrameTime
    BY <1>1, <1>4, <1>5, <1>8 DEF Abs
  <2>4. t \in first_t..last_t => Abs(first_t - t) <= (2 + file.missing) * FrameTime
    BY <1>1, <1>4, <1>5, <1>6, <2>3 DEF Abs
  <2>5. FoundClose'
    BY <1>1, <1>2, <1>4, <1>5, <2>2, <2>4 DEF FoundClose
  <2> QED BY <1>1, <1>2, <1>3, <2>1, <2>2, <2>5 DEF SeekInv, SeekTypes, Seeking
<1>9. CASE /\ NoTime \notin {first_t, last_t} /\ ~(t < first_t + FrameTime)
           /\ t > last_t - FrameTime
  <2>1. seek' = [begun EXCEPT !.at = "found", !.min_f = LastFrame]
    BY <1>9 DEF TimeSeek, ImgInfo, begun
  <2>2. seek'.at = "found" /\ seek'.min_f = LastFrame /\ seek'.t = t
    BY <1>3, <2>1
  <2>3. t \in first_t..last_t => Abs(last_t - t) <= FrameTime
    BY <1>1, <1>4, <1>5, <1>9 DEF Abs
  <2>4. t \in first_t..last_t => Abs(last_t - t) <= (2 + file.missing) * FrameTime
    BY <1>1, <1>4, <1>5, <1>6, <2>3 DEF Abs
  <2>5. FoundClose'
    BY <1>1, <1>2, <1>4, <1>5, <2>2, <2>4 DEF FoundClose
  <2>6. SeekTypes'
    <3>1. seek' = [at |-> "found", t |-> t, min_f |-> LastFrame, max_f |-> 0, min_t |-> 0,
                   max_t |-> 0, probes |-> 0]
      BY <1>3, <2>1
    <3> QED BY <1>4, <3>1 DEF SeekTypes
  <2> QED BY <1>1, <1>2, <2>2, <2>5, <2>6 DEF SeekInv, Seeking
<1>10. CASE /\ NoTime \notin {first_t, last_t} /\ ~(t < first_t + FrameTime)
            /\ ~(t > last_t - FrameTime)
  <2>1. seek' = [begun EXCEPT !.at = "seeking", !.max_f = LastFrame, !.min_t = first_t, !.max_t = last_t]
    BY <1>10 DEF TimeSeek, ImgInfo, begun
  <2>2. /\ seek'.at = "seeking" /\ seek'.min_f = 0 /\ seek'.max_f = LastFrame /\ seek'.t = t
        /\ seek'.min_t = first_t /\ seek'.max_t = last_t /\ seek'.probes = 0
    BY <1>3, <2>1
  <2>3. SeekTypes'
    <3>1. seek' = [at |-> "seeking", t |-> t, min_f |-> 0, max_f |-> LastFrame, min_t |-> first_t,
                   max_t |-> last_t, probes |-> 0]
      BY <1>3, <2>1
    <3> QED BY <1>4, <1>5, <3>1 DEF SeekTypes
  <2>4. LastFrame # 0
    BY <1>1, <1>4, <1>5, <1>10
  <2>5. Seeking'
    BY <1>1, <1>2, <1>4, <1>5, <1>10, <2>2, <2>4 DEF Seeking
  <2> QED BY <1>1, <1>2, <2>2, <2>3, <2>5 DEF SeekInv, FoundClose
<1> QED BY <1>7, <1>8, <1>9, <1>10

(* One step of the search: it ends at a frame that is close, or the frame  *)
(* it has looked at becomes one of the two it is between.                  *)
LEMMA ProbeInv ==
  ASSUME SeekInv, Probe
  PROVE  SeekInv'
<1> DEFINE a == seek.t - seek.min_t
           d == seek.max_t - seek.min_t
           n == seek.max_f - seek.min_f
           m == file.missing
<1>1. /\ seek.at = "seeking" /\ file' = file /\ FrameTime \in Nat \ {0} /\ file.missing \in Nat
      /\ SeekTypes /\ file # NoFile
  BY PffAssumption DEF Probe, SeekInv, Spaced
<1>2. PffInv' /\ Spaced' /\ Nonempty' /\ LastFrame' = LastFrame /\ (\A f : TimeAt(f)' = TimeAt(f))
  BY <1>1 DEF SeekInv, PffInv, Written, Spaced, Nonempty, LastFrame, TimeAt
<1>3. /\ seek.min_f \in 0..LastFrame /\ seek.max_f \in 0..LastFrame /\ seek.min_f < seek.max_f
      /\ seek.min_t = TimeAt(seek.min_f) /\ seek.max_t = TimeAt(seek.max_f)
      /\ seek.min_t # NoTime /\ seek.max_t # NoTime
      /\ seek.min_t + FrameTime <= seek.t /\ seek.t <= seek.max_t - FrameTime
      /\ seek.probes \in Nat /\ 2 * seek.probes + seek.max_f - seek.min_f <= LastFrame
  BY <1>1 DEF SeekInv, Seeking
<1>4. /\ seek.t \in Int /\ seek.min_t \in Int /\ seek.max_t \in Int
      /\ seek.min_f \in Nat /\ seek.max_f \in Nat /\ LastFrame \in Nat
  <2>1. LastFrame \in Int
    BY DEF SeekInv, PffInv, LastFrame
  <2> QED BY <1>1, <1>3, <2>1 DEF SeekTypes
<1>5. a \in Nat /\ d \in Nat /\ n \in Nat /\ m \in Nat /\ 0 < a /\ a < d /\ 0 < n
  BY <1>1, <1>3, <1>4
<1>6. d <= (n + m) * FrameTime
  BY <1>3, <1>4, Spread
<1>7. PICK f \in Interpolated :
        \/ f <= seek.min_f + 1 /\ Found(seek.min_f)
        \/ f > seek.min_f + 1 /\ f >= seek.max_f - 1 /\ Found(f)
        \/ /\ f > seek.min_f + 1 /\ f < seek.max_f - 1
           /\ LET time == TimeAt(f)
              IN  \/ time = NoTime /\ Raised
                  \/ time # NoTime /\ time \in (seek.t - FrameTime)..(seek.t + FrameTime - 1) /\ Found(f)
                  \/ time # NoTime /\ time \notin (seek.t - FrameTime)..(seek.t + FrameTime - 1) /\ Narrow(f, time)
  BY DEF Probe
<1>8. PICK w \in Int : f = seek.min_f + w /\ w * d <= a * n /\ a * n <= (w + 1) * d /\ w < n
  <2>1. PICK q \in Int : q = (a * n) \div d
    BY <1>5, SMT
  <2>2. \E w \in {q} \cup (IF (a * n) % d = 0 THEN {q - 1} ELSE {}) : f = seek.min_f + w
    <3>1. f \in {seek.min_f + q} \cup (IF (a * n) % d = 0 THEN {seek.min_f + q - 1} ELSE {})
      BY <2>1 DEF Interpolated
    <3>2. seek.min_f + q - 1 = seek.min_f + (q - 1)
      BY <1>4, <2>1
    <3> QED BY <3>1, <3>2
  <2>3. PICK w \in {q} \cup (IF (a * n) % d = 0 THEN {q - 1} ELSE {}) : f = seek.min_f + w
    BY <2>2
  <2> HIDE DEF a, d, n
  <2>4. w \in Int /\ w * d <= a * n /\ a * n <= (w + 1) * d /\ w < n
    BY <1>5, <2>1, <2>3, Evenly
  <2> QED BY <2>3, <2>4
<1>9. f \in Int /\ f < seek.max_f
  BY <1>4, <1>8
<1>10. ASSUME NEW g \in 0..LastFrame, Found(g),
              TimeAt(g) # NoTime => Abs(TimeAt(g) - seek.t) <= (2 + m) * FrameTime
       PROVE  SeekInv'
  <2>1. seek'.at = "found" /\ seek'.min_f = g /\ seek'.t = seek.t
    BY <1>1, <1>10 DEF Found, SeekTypes
  <2>2. SeekTypes'
    <3>1. g \in Int
      BY <1>4
    <3> QED BY <1>1, <1>10, <3>1 DEF Found, SeekTypes
  <2>3. FoundClose'
    BY <1>1, <1>2, <1>10, <2>1 DEF FoundClose
  <2> QED BY <1>1, <1>2, <2>1, <2>2, <2>3 DEF SeekInv, Seeking
<1>11. CASE f <= seek.min_f + 1 /\ Found(seek.min_f)
  <2>1. w <= 1
    BY <1>4, <1>8, <1>11
  <2>2. a <= d
    BY <1>5
  <2> HIDE DEF a, d, n, m
  <2>3. a <= (2 + m) * FrameTime
    BY <1>1, <1>5, <1>6, <1>8, <2>1, <2>2, Below
  <2>4. Abs(TimeAt(seek.min_f) - seek.t) = a
    BY <1>3, <1>4, <1>5 DEF a, Abs
  <2> QED BY <1>3, <1>10, <1>11, <2>3, <2>4
<1>12. CASE f > seek.min_f + 1 /\ f >= seek.max_f - 1 /\ Found(f)
  <2>1. f = seek.max_f - 1 /\ w = n - 1
    BY <1>4, <1>8, <1>9, <1>12
  <2>2. f \in 0..LastFrame
    BY <1>3, <1>4, <1>9, <1>12
  <2>3. d - a <= (1 + m) * FrameTime
    <3>1. a <= d /\ n > 0 /\ (n - 1) * d <= a * n
      BY <1>5, <1>8, <2>1
    <3> HIDE DEF a, d, n, m
    <3> QED BY <1>1, <1>5, <1>6, <3>1, Above
  <2>4. ASSUME TimeAt(f) # NoTime
        PROVE  Abs(TimeAt(f) - seek.t) <= (2 + m) * FrameTime
    <3>1. /\ TimeAt(f) \in Int
          /\ (seek.max_f - f) * FrameTime <= seek.max_t - TimeAt(f)
          /\ seek.max_t - TimeAt(f) <= (seek.max_f - f + file.missing) * FrameTime
      BY <1>3, <1>9, <2>2, <2>4, Spread
    <3>2. seek.max_f - f = 1
      BY <1>4, <2>1
    <3>3. PICK c \in Nat : c = m * FrameTime
      BY <1>1, SMT
    <3>4. (1 + m) * FrameTime = FrameTime + c /\ (2 + m) * FrameTime = 2 * FrameTime + c /\ 1 * FrameTime = FrameTime
      BY <1>1, <3>3, SMT
    <3>5. FrameTime <= seek.max_t - TimeAt(f) /\ seek.max_t - TimeAt(f) <= FrameTime + c
      BY <3>1, <3>2, <3>4
    <3>6. d - a = seek.max_t - seek.t
      BY <1>4
    <3>7. FrameTime <= seek.max_t - seek.t /\ seek.max_t - seek.t <= FrameTime + c
      BY <1>1, <1>3, <1>4, <2>3, <3>4, <3>6
    <3> QED BY <1>1, <1>4, <3>1, <3>3, <3>4, <3>5, <3>7 DEF Abs
  <2> QED BY <1>10, <1>12, <2>2, <2>4
<1>13. CASE f > seek.min_f + 1 /\ f < seek.max_f - 1 /\ TimeAt(f) = NoTime /\ Raised
  BY <1>1, <1>2, <1>13 DEF Raised, SeekInv, SeekTypes, Seeking, FoundClose
<1>14. CASE /\ f > seek.min_f + 1 /\ f < seek.max_f - 1 /\ TimeAt(f) # NoTime
            /\ TimeAt(f) \in (seek.t - FrameTime)..(seek.t + FrameTime - 1) /\ Found(f)
  <2>1. f \in 0..LastFrame
    BY <1>3, <1>4, <1>9, <1>14
  <2>2. Abs(TimeAt(f) - seek.t) <= FrameTime
    BY <1>1, <1>4, <1>14 DEF Abs
  <2>3. PICK c \in Nat : c = m * FrameTime
    BY <1>1, SMT
  <2>4. (2 + m) * FrameTime = 2 * FrameTime + c
    BY <1>1, <2>3, SMT
  <2>5. TimeAt(f) \in Int
    BY <1>14, <2>1, TimeIsInt
  <2>6. Abs(TimeAt(f) - seek.t) <= (2 + m) * FrameTime
    BY <1>1, <1>4, <2>2, <2>3, <2>4, <2>5 DEF Abs
  <2> QED BY <1>10, <1>14, <2>1, <2>6
<1>15. CASE /\ f > seek.min_f + 1 /\ f < seek.max_f - 1 /\ TimeAt(f) # NoTime
            /\ TimeAt(f) \notin (seek.t - FrameTime)..(seek.t + FrameTime - 1) /\ Narrow(f, TimeAt(f))
  <2>1. f \in 0..LastFrame
    BY <1>3, <1>4, <1>9, <1>15
  <2>2. TimeAt(f) \in Int
    BY <2>1, TimeIsInt
  <2>3. CASE TimeAt(f) < seek.t - FrameTime
    <3>1. seek' = [seek EXCEPT !.min_f = f, !.min_t = TimeAt(f), !.probes = seek.probes + 1]
      BY <1>15, <2>3 DEF Narrow
    <3>2. /\ seek'.at = "seeking" /\ seek'.min_f = f /\ seek'.min_t = TimeAt(f)
          /\ seek'.max_f = seek.max_f /\ seek'.max_t = seek.max_t /\ seek'.t = seek.t
          /\ seek'.probes = seek.probes + 1
      BY <1>1, <3>1 DEF SeekTypes
    <3>3. SeekTypes'
      <4>1. seek.probes + 1 \in Int
        BY <1>3
      <4> QED BY <1>1, <1>9, <2>2, <3>1, <4>1 DEF SeekTypes
    <3>4. Seeking'
      BY <1>1, <1>2, <1>3, <1>4, <1>9, <1>15, <2>1, <2>2, <2>3, <3>2 DEF Seeking
    <3> QED BY <1>1, <1>2, <3>2, <3>3, <3>4 DEF SeekInv, FoundClose
  <2>4. CASE ~(TimeAt(f) < seek.t - FrameTime)
    <3>1. seek' = [seek EXCEPT !.max_f = f, !.max_t = TimeAt(f), !.probes = seek.probes + 1]
      BY <1>15, <2>4 DEF Narrow
    <3>2. /\ seek'.at = "seeking" /\ seek'.max_f = f /\ seek'.max_t = TimeAt(f)
          /\ seek'.min_f = seek.min_f /\ seek'.min_t = seek.min_t /\ seek'.t = seek.t
          /\ seek'.probes = seek.probes + 1
      BY <1>1, <3>1 DEF SeekTypes
    <3>3. SeekTypes'
      <4>1. seek.probes + 1 \in Int
        BY <1>3
      <4> QED BY <1>1, <1>9, <2>2, <3>1, <4>1 DEF SeekTypes
    <3>4. seek.t <= TimeAt(f) - FrameTime
      BY <1>1, <1>4, <1>15, <2>2, <2>4
    <3>5. Seeking'
      BY <1>1, <1>2, <1>3, <1>4, <1>9, <1>15, <2>1, <2>2, <3>4, <3>2 DEF Seeking
    <3> QED BY <1>1, <1>2, <3>2, <3>3, <3>5 DEF SeekInv, FoundClose
  <2> QED BY <2>3, <2>4
<1> QED BY <1>7, <1>11, <1>12, <1>13, <1>14, <1>15

(* time_seek() has, whatever is missing or unfilled, when it ends found a  *)
(* frame of the file at most two frames and those that are missing from    *)
(* the time; before, the time is between its two frames, which come closer *)
(* with each frame it reads.                                               *)
THEOREM SearchIsClose == PffSpec => []SeekClose
<1>1. PffInit => SeekInv
  <2> SUFFICES ASSUME PffInit PROVE SeekInv
    OBVIOUS
  <2>1. file = [headers |-> <<>>, taken |-> <<>>, skew |-> 0, missing |-> 0]
    BY DEF PffInit, NoFile
  <2>2. Len(file.headers) = 0
    BY <2>1
  <2>3. PffInv /\ Spaced
    BY <2>1, <2>2 DEF PffInv, Written, Spaced
  <2> QED BY <2>3 DEF PffInit, SeekInv, SeekTypes, Seeking, FoundClose, NoSeek, Nonempty
<1>2. SeekInv /\ [PffNext]_pff => SeekInv'
  <2> SUFFICES ASSUME SeekInv, [PffNext]_pff PROVE SeekInv'
    OBVIOUS
  <2>1. CASE UNCHANGED pff
    BY <2>1 DEF pff, SeekInv, PffInv, Written, Spaced, SeekTypes, Seeking, FoundClose, LastFrame,
                TimeAt, Nonempty
  <2>2. CASE /\ file = NoFile
             /\ \E start \in Seconds, order \in Files, skew \in Skews :
                  \E zero \in 0..Len(order) : OpenFile(start, order, skew, zero)
    <3>1. PffInv' /\ Spaced'
      BY <2>2, OpenWritten, OpenSpaced
    <3>2. seek.at = "none" /\ seek' = seek /\ SeekTypes
      BY <2>2 DEF OpenFile, SeekInv
    <3>3. (file # NoFile => LastFrame >= 0)'
      BY <2>2, OpenNonempty DEF Nonempty
    <3> QED BY <3>1, <3>2, <3>3 DEF SeekInv, SeekTypes, Seeking, FoundClose, Nonempty
  <2>3. CASE CloseFile
    <3>1. file' = [headers |-> <<>>, taken |-> <<>>, skew |-> 0, missing |-> 0] /\ file' = NoFile
      BY <2>3 DEF CloseFile, NoFile
    <3>2. Len(file'.headers) = 0
      BY <3>1
    <3>3. PffInv' /\ Spaced'
      BY <3>1, <3>2 DEF PffInv, Written, Spaced
    <3> QED BY <2>3, <3>1, <3>3 DEF CloseFile, SeekInv, SeekTypes, Seeking, FoundClose, NoSeek, Nonempty
  <2>4. CASE \E start \in Seconds : \E t \in Times(start) : TimeSeek(t)
    <3>1. PICK start \in Seconds : \E t \in Times(start) : TimeSeek(t)
      BY <2>4
    <3>2. PICK t \in Times(start) : TimeSeek(t)
      BY <3>1
    <3>3. t \in Int
      BY <3>2 DEF Times
    <3> QED BY <3>2, <3>3, TimeSeekInv
  <2>5. CASE Probe
    BY <2>5, ProbeInv
  <2> QED BY <2>1, <2>2, <2>3, <2>4, <2>5 DEF PffNext
<1> QED BY <1>1, <1>2, InvCloses, PTL DEF PffSpec

-----------------------------------------------------------------------------
(* The clients: what a call returns is true of the server.                 *)

(* The classes of Init.                                                    *)
Classes == DaqControls \cup DaqDatas \cup MLs \cup Ubloxes \cup {TelemetryClient}

(* The methods.                                                            *)
AnyMethod == [deadline : BOOLEAN, effect : BOOLEAN, reply : {"raise", "bool", "value", "check"}]
(* Where a call is.                                                        *)
Places == {"sent", "broken", "backoff", "ended"}
(* What becomes of it.                                                     *)
Outcomes == {"none", "done", "ValueError", "reply", "False", "misuse", "cancelled",
             "PanosetiRpcError", "RpcError"}
(* The records of a call.                                                  *)
AnyCall == [id : Nat, method : AnyMethod, n : Nat, at : Places,
            answer : {"none", "ok", "no"}, outcome : Outcomes]
(* What a caller makes of replies.                                         *)
Replies == {"done", "ValueError", "False", "reply"}

(* Servers only know of calls that were made.                              *)
CallsKnown ==
  /\ client \in Classes /\ call \in AnyCall
  /\ call.method.reply = "check" => ~call.method.effect
  /\ served \in SUBSET (Nat \X Nat) /\ done \in SUBSET Nat
  /\ \A a \in served : a[1] <= call.id
  /\ \A d \in done : d <= call.id

(* What is said to be done was done.                                       *)
DoneTrue ==
  /\ call.answer = "ok" /\ call.method.effect => call.id \in done
  /\ call.at = "ended" /\ call.outcome = "done" /\ call.method.effect /\ client \notin Ubloxes
       => call.id \in done

(* Nothing of the call is at a server.                                     *)
NotServed == \A a \in served : a[1] # call.id

(* A client that sends every request once: there is one attempt, and a     *)
(* reply is the end of it.                                                 *)
SentOnce ==
  /\ call.at # "backoff"
  /\ \A a \in served : a[1] = call.id => a[2] = call.n
  /\ call.answer # "none" => NotServed
  /\ call.at = "ended" /\ call.outcome \in Replies /\ call.method.effect => NotServed

(* The inductive invariant behind AnswersHonest.                           *)
CallsInv == CallsKnown /\ DoneTrue /\ (client.retries \/ SentOnce)

-----------------------------------------------------------------------------
(* The clients: streams are merged without mixing them up.                 *)

(* What is in the queue of a reader.                                       *)
Message == [label : Hosts, from : Hosts, k : Nat]
(* How a stream ends.                                                      *)
Marks == {Ended, Failed}
(* What the caller gets.                                                   *)
Item == [from : Hosts, k : Nat]
(* A message of h.                                                         *)
From(x, h) == x \in Message /\ x.from = h

(* Of the g messages a host has sent, the caller got the first, y, and the *)
(* others are in the queue q, in their order.                              *)
Carried(q, y, g, h) ==
  /\ Len(y) <= g
  /\ \A i \in 1..Len(y) : y[i] = [from |-> h, k |-> i]
  /\ \A i \in 1..Len(q) : From(q[i], h) => q[i].label = h /\ Len(y) < q[i].k /\ q[i].k <= g
  /\ \A i, j \in 1..Len(q) : i < j /\ From(q[i], h) /\ From(q[j], h) => q[i].k < q[j].k
  /\ \A k \in Len(y) + 1 .. g : \E i \in 1..Len(q) : From(q[i], h) /\ q[i].k = k

(* The states of a stream.                                                 *)
Stream == [at : {"none", "open", "broken", "over"}, n : Nat, got : Nat]

(* The types of what a reader sees.                                        *)
StreamTypes ==
  /\ stream \in [Hosts -> Stream]
  /\ labels \in [Hosts -> Hosts]
  /\ queue \in Seq(Message \cup Marks)
  /\ reader \in [at : {"none", "reading", "ended", "raised", "left"}, finished : Nat]
  /\ yielded \in [Hosts -> Seq(Item)]

(* Nothing was read yet.                                                   *)
Unread ==
  /\ stream = [h \in Hosts |-> NoStream]
  /\ labels = [h \in Hosts |-> h]
  /\ queue = <<>>
  /\ yielded = [h \in Hosts |-> <<>>]

(* The inductive invariant behind MergeFaithful.                           *)
MergeInv ==
  /\ StreamTypes
  /\ phase = "new" => reader.at = "none"
  /\ reader.at = "none" => Unread
  /\ valid = Hosts => \A h \in Hosts : labels[h] = h
  /\ valid = Hosts => \A h \in Hosts : Carried(queue, yielded[h], stream[h].got, h)

(* Both together, for any client.                                          *)
ClientInv == CallsInv /\ (client = AioUbloxControlClient => MergeInv)

(* Every class of Init has a method set of these.                          *)
LEMMA MethodsKnown ==
  ASSUME NEW m \in MethodsOf(client)
  PROVE  m \in AnyMethod /\ (m.reply = "check" => ~m.effect)
<1>1. m \in RunMethods \cup DataMethods \cup TransferMethods
        \cup {StatusMethod, InitHpIo, BlockingInitHpIo, EmitPrediction, BlockingEmitPrediction,
              Send, Check}
  BY DEF MethodsOf, BlockingMethods
<1>2. \A b, d \in BOOLEAN, r \in {"raise", "bool", "value", "check"} :
        Method(b, d, r) \in AnyMethod /\ Method(b, d, r).effect = d /\ Method(b, d, r).reply = r
  BY DEF AnyMethod, Method
<1>3. \A x \in RunMethods \cup DataMethods \cup TransferMethods : x \in AnyMethod /\ x.reply # "check"
  BY <1>2 DEF RunMethods, DataMethods, TransferMethods
<1>4. \A x \in {StatusMethod, InitHpIo, BlockingInitHpIo, EmitPrediction, BlockingEmitPrediction,
              Send, Check} : x \in AnyMethod /\ (x.reply = "check" => ~x.effect)
  BY <1>2 DEF StatusMethod, InitHpIo, BlockingInitHpIo, EmitPrediction, BlockingEmitPrediction,
    Send, Check
<1> QED BY <1>1, <1>3, <1>4

(* Only AsyncDaqControlClient and AioDaqDataClient repeat requests.        *)
LEMMA ClassesKnown ==
  ASSUME NEW c \in Classes
  PROVE  /\ c.retries \in BOOLEAN
         /\ c.name \notin {"AsyncDaqControlClient", "AioDaqDataClient"} => ~c.retries
         /\ c.name = "AioUbloxControlClient" => c = AioUbloxControlClient
<1>1. CASE c = AsyncDaqControlClient
  BY <1>1 DEF Class, AsyncDaqControlClient
<1>2. CASE c = DaqControlClient
  BY <1>2 DEF Class, DaqControlClient
<1>3. CASE c = AioDaqDataClient
  BY <1>3 DEF Class, AioDaqDataClient
<1>4. CASE c = DaqDataClient
  BY <1>4 DEF Class, DaqDataClient
<1>5. CASE c = AioMLInferenceClient
  BY <1>5 DEF Class, AioMLInferenceClient
<1>6. CASE c = MLInferenceClient
  BY <1>6 DEF Class, MLInferenceClient
<1>7. CASE c = TelemetryClient
  BY <1>7 DEF Class, TelemetryClient
<1>8. CASE c = AioUbloxControlClient
  BY <1>8 DEF Class, AioUbloxControlClient
<1>9. CASE c = UbloxControlClient
  BY <1>9 DEF Class, UbloxControlClient
<1> QED
  BY <1>1, <1>2, <1>3, <1>4, <1>5, <1>6, <1>7, <1>8, <1>9
    DEF Classes, DaqControls, DaqDatas, MLs, Ubloxes

(* A new call: no server has heard of it.                                  *)
LEMMA NewCallStep ==
  ASSUME CallsInv, NEW m \in AnyMethod, m.reply = "check" => ~m.effect,
         NEW at \in {"sent", "ended"}, NEW outcome \in Outcomes,
         NewCall(m, at, outcome), UNCHANGED <<client, served, done>>,
         outcome = "done" => client \in Ubloxes \/ ~m.effect
  PROVE  CallsInv'
<1> DEFINE c == [id |-> call.id + 1, method |-> m, n |-> 1, at |-> at, answer |-> "none", outcome |-> outcome]
<1>1. call \in AnyCall /\ call' = c
  BY DEF CallsInv, CallsKnown, NewCall
<1>2. /\ c \in AnyCall /\ c.id = call.id + 1 /\ c.method = m /\ c.at = at
      /\ c.answer = "none" /\ c.outcome = outcome
  BY <1>1 DEF AnyCall, Places
<1>3. call.id \in Nat /\ call'.id = call.id + 1 /\ call'.id \in Nat
  BY <1>1, <1>2 DEF AnyCall
<1>4. call'.id \notin done /\ \A a \in served : a[1] # call'.id
  BY <1>3 DEF CallsInv, CallsKnown
<1>5. CallsKnown'
  <2>1. call' \in AnyCall /\ (call'.method.reply = "check" => ~call'.method.effect)
    BY <1>1, <1>2
  <2>2. \A a \in served : a[1] <= call'.id
    BY <1>3 DEF CallsInv, CallsKnown
  <2>3. \A d \in done : d <= call'.id
    BY <1>3 DEF CallsInv, CallsKnown
  <2> QED BY <2>1, <2>2, <2>3 DEF CallsInv, CallsKnown
<1>6. DoneTrue'
  BY <1>1, <1>2 DEF DoneTrue
<1>7. SentOnce'
  BY <1>1, <1>2, <1>4 DEF SentOnce, NotServed
<1> QED BY <1>5, <1>6, <1>7 DEF CallsInv

(* The call ends: as something the answer on its way allows, or without    *)
(* saying what became of it.                                               *)
LEMMA EndStep ==
  ASSUME CallsInv, NEW outcome \in Outcomes, End(outcome), UNCHANGED <<client, served, done>>,
         outcome = "done" => call.answer = "ok",
         outcome \in Replies => call.answer # "none" \/ ~call.method.effect
  PROVE  CallsInv'
<1>1. call \in AnyCall
  BY DEF CallsInv, CallsKnown
<1>2. /\ call' \in AnyCall /\ call'.id = call.id /\ call'.method = call.method /\ call'.n = call.n
      /\ call'.answer = call.answer /\ call'.at = "ended" /\ call'.outcome = outcome
  BY <1>1 DEF End, AnyCall, Places
<1>3. CallsKnown'
  BY <1>2 DEF CallsInv, CallsKnown
<1>4. DoneTrue'
  BY <1>2 DEF CallsInv, DoneTrue
<1>5. SentOnce => SentOnce'
  BY <1>2 DEF SentOnce, NotServed
<1> QED BY <1>3, <1>4, <1>5 DEF CallsInv

(* What FailedCall says of a call with an effect is no reply.              *)
LEMMA FailedCallStep ==
  ASSUME CallsInv, End(FailedCall), UNCHANGED <<client, served, done>>
  PROVE  CallsInv'
<1>1. FailedCall \in Outcomes /\ FailedCall # "done"
  BY DEF FailedCall, ErrorOutcome, Outcomes
<1>2. FailedCall \in Replies => ~call.method.effect
  BY DEF FailedCall, ErrorOutcome, Replies, CallsInv, CallsKnown
<1> QED BY <1>1, <1>2, EndStep

(* A server completes an attempt.                                          *)
LEMMA ExecuteStep ==
  ASSUME CallsInv, NEW a, NEW ok \in BOOLEAN, Execute(a, ok)
  PROVE  CallsInv'
<1> DEFINE now == a = <<call.id, call.n>> /\ call.at = "sent"
           ans == IF ok THEN "ok" ELSE "no"
<1>1. /\ call \in AnyCall /\ a \in served /\ a \in Nat \X Nat /\ a[1] <= call.id
      /\ served' = served \ {a} /\ client' = client
  BY DEF Execute, CallsInv, CallsKnown
<1>2. /\ call' \in AnyCall /\ call'.id = call.id /\ call'.method = call.method /\ call'.n = call.n
      /\ call'.at = call.at /\ call'.outcome = call.outcome
      /\ call'.answer = IF now THEN ans ELSE call.answer
  BY <1>1 DEF Execute, AnyCall
<1>3. done' = done \cup {a[1]} \/ (~ok /\ done' = done)
  BY DEF Execute
<1>4. CallsKnown'
  <2>1. done' \in SUBSET Nat /\ \A d \in done' : d <= call.id
    BY <1>1, <1>3 DEF CallsInv, CallsKnown
  <2> QED BY <1>1, <1>2, <2>1 DEF CallsInv, CallsKnown
<1>5. DoneTrue'
  <2>1. now => a[1] = call.id
    BY <1>1
  <2> QED BY <1>1, <1>2, <1>3, <2>1 DEF CallsInv, DoneTrue
<1>6. ASSUME SentOnce PROVE SentOnce'
  <2>1. now => \A b \in served \ {a} : b[1] # call.id
    <3>1. \A b \in served : b = <<b[1], b[2]>> /\ (b[1] = call.id => b[2] = call.n)
      BY <1>6 DEF SentOnce, CallsInv, CallsKnown
    <3> QED BY <1>1, <3>1
  <2>2. call'.at # "backoff" /\ \A b \in served' : b[1] = call'.id => b[2] = call'.n
    BY <1>1, <1>2, <1>6 DEF SentOnce
  <2>3. call'.answer # "none" => NotServed'
    BY <1>1, <1>2, <1>6, <2>1 DEF SentOnce, NotServed
  <2>4. call'.at = "ended" /\ call'.outcome \in Replies /\ call'.method.effect => NotServed'
    BY <1>1, <1>2, <1>6 DEF SentOnce, NotServed
  <2> QED BY <2>2, <2>3, <2>4 DEF SentOnce
<1> QED BY <1>1, <1>4, <1>5, <1>6 DEF CallsInv

(* Retry, the connection that breaks, and the end of a channel leave what  *)
(* servers know of the call.                                               *)
LEMMA MovedStep ==
  ASSUME CallsInv, NEW at \in Places, UNCHANGED <<client, served, done>>,
         call' = [call EXCEPT !.at = at], at \in {"sent", "broken"}, call.at = "sent" \/ at # "sent"
  PROVE  CallsInv'
<1>1. /\ call' \in AnyCall /\ call'.id = call.id /\ call'.method = call.method /\ call'.n = call.n
      /\ call'.answer = call.answer /\ call'.at = at /\ call'.outcome = call.outcome
  BY DEF CallsInv, CallsKnown, AnyCall
<1>2. CallsKnown' /\ DoneTrue' /\ (SentOnce => SentOnce')
  BY <1>1 DEF CallsInv, CallsKnown, DoneTrue, SentOnce, NotServed
<1> QED BY <1>2 DEF CallsInv

(* A call is repeated by a client that has the retry policy.               *)
LEMMA BackoffStep ==
  ASSUME CallsInv, MayRetry(call.n), call' = [call EXCEPT !.at = "backoff", !.answer = "none"],
         UNCHANGED <<client, served, done>>
  PROVE  CallsInv'
<1>1. /\ call' \in AnyCall /\ call'.id = call.id /\ call'.method = call.method /\ call'.n = call.n
      /\ call'.answer = "none" /\ call'.at = "backoff" /\ call'.outcome = call.outcome
  BY DEF CallsInv, CallsKnown, AnyCall, Places
<1>2. CallsKnown' /\ DoneTrue' /\ client'.retries
  BY <1>1 DEF CallsInv, CallsKnown, DoneTrue, MayRetry
<1> QED BY <1>2 DEF CallsInv

(* The next attempt.                                                       *)
LEMMA RetryStep ==
  ASSUME CallsInv, Retry
  PROVE  CallsInv'
<1>1. /\ call' \in AnyCall /\ call'.id = call.id /\ call'.method = call.method
      /\ call'.answer = call.answer /\ call'.at = "sent" /\ call'.outcome = call.outcome
      /\ UNCHANGED <<client, served, done>> /\ call.at = "backoff"
  <2>1. call \in AnyCall /\ call.n \in Nat /\ call.n + 1 \in Nat
    BY DEF CallsInv, CallsKnown, AnyCall
  <2>2. call' = [call EXCEPT !.at = "sent", !.n = call.n + 1]
    BY DEF Retry
  <2> QED BY <2>1, <2>2 DEF AnyCall, Places, Retry
<1>2. CallsKnown' /\ DoneTrue' /\ client.retries
  BY <1>1 DEF CallsInv, CallsKnown, DoneTrue, SentOnce
<1> QED BY <1>1, <1>2 DEF CallsInv

(* The attempt reaches the server.                                         *)
LEMMA TakeStep ==
  ASSUME CallsInv, Take
  PROVE  CallsInv'
<1>1. /\ call \in AnyCall /\ call.at = "sent" /\ call.answer = "none"
      /\ served' = served \cup {<<call.id, call.n>>} /\ UNCHANGED <<client, call, done>>
  BY DEF Take, CallsInv, CallsKnown
<1>2. call.id \in Nat /\ call.n \in Nat /\ <<call.id, call.n>> \in Nat \X Nat
  BY <1>1 DEF AnyCall
<1>3. CallsKnown'
  <2>1. \A a \in served' : a[1] <= call.id
    BY <1>1, <1>2 DEF CallsInv, CallsKnown
  <2> QED BY <1>1, <1>2, <2>1 DEF CallsInv, CallsKnown
<1>4. DoneTrue' /\ (SentOnce => SentOnce')
  BY <1>1 DEF CallsInv, DoneTrue, SentOnce, NotServed
<1> QED BY <1>1, <1>3, <1>4 DEF CallsInv

(* A handler is cancelled.                                                 *)
LEMMA DropStep ==
  ASSUME CallsInv, NEW a, Drop(a)
  PROVE  CallsInv'
<1>1. served' \subseteq served /\ UNCHANGED <<client, call, done>>
  BY DEF Drop
<1>2. CallsKnown' /\ DoneTrue' /\ (SentOnce => SentOnce')
  BY <1>1 DEF CallsInv, CallsKnown, DoneTrue, SentOnce, NotServed
<1> QED BY <1>1, <1>2 DEF CallsInv

(* What has nothing to do with the call.                                   *)
LEMMA CallsSame ==
  ASSUME CallsInv, UNCHANGED <<client, call, served, done>>
  PROVE  CallsInv'
BY DEF CallsInv, CallsKnown, DoneTrue, SentOnce, NotServed

(* No step makes an answer untrue.                                         *)
LEMMA CallsStep ==
  ASSUME CallsInv, [Next]_vars
  PROVE  CallsInv'
<1>1. ASSUME NEW m \in MethodsOf(client), Invoke(m) \/ Misuse(m) PROVE CallsInv'
  BY <1>1, NewCallStep, MethodsKnown DEF Invoke, Misuse, Outcomes, unary
<1>2. ASSUME NEW h \in Hosts, Ping(h) PROVE CallsInv'
  <2>1. Check \in AnyMethod /\ ~Check.effect
    BY DEF Check, Method, AnyMethod
  <2> DEFINE out == IF h \in valid /\ reach[h] # "down" THEN "done" ELSE "False"
  <2>2. out \in Outcomes /\ NewCall(Check, "ended", out) /\ UNCHANGED <<client, served, done>>
    BY <1>2 DEF Ping, Outcomes
  <2> QED BY <2>1, <2>2, NewCallStep
<1>3. ASSUME NEW asked, InitF9t(asked) \/ BlockingInitF9t(asked) PROVE CallsInv'
  <2> DEFINE m == Method(TRUE, TRUE, "bool")
  <2>1. m \in AnyMethod /\ m.reply # "check"
    BY DEF Method, AnyMethod
  <2>2. PICK out \in Outcomes : NewCall(m, "ended", out)
    BY <1>3 DEF InitF9t, BlockingInitF9t, Outcomes
  <2>3. client \in Ubloxes /\ UNCHANGED <<client, served, done>>
    BY <1>3 DEF InitF9t, BlockingInitF9t, Ubloxes
  <2> QED BY <2>1, <2>2, <2>3, NewCallStep
<1>4. CASE Take
  BY <1>4, TakeStep
<1>5. CASE Deliver
  <2> DEFINE out == Outcome(call.method, call.answer)
  <2>1. call \in AnyCall /\ call.answer # "none" /\ End(out) /\ UNCHANGED <<client, served, done>>
    BY <1>5 DEF Deliver, CallsInv, CallsKnown
  <2>2. call.answer \in {"ok", "no"}
    BY <2>1 DEF AnyCall
  <2>3. call.answer = "ok" => out = "done"
    BY DEF Outcome
  <2>4. call.answer = "no" => out \in {"ValueError", "False", "reply"}
    BY DEF Outcome
  <2>5. out \in Outcomes /\ (out = "done" => call.answer = "ok")
    BY <2>2, <2>3, <2>4 DEF Outcomes
  <2> QED BY <2>1, <2>5, EndStep
<1>6. CASE Fail
  BY <1>6, BackoffStep, FailedCallStep DEF Fail
<1>7. CASE Retry
  BY <1>7, RetryStep
<1>8. CASE Deadline
  BY <1>8, FailedCallStep DEF Deadline
<1>9. CASE Exit
  <2>1. UNCHANGED <<client, served, done>> /\ (call' = call \/ End("cancelled"))
    BY <1>9 DEF Exit, End
  <2> QED BY <2>1, CallsSame, EndStep DEF Outcomes, Replies
<1>10. ASSUME NEW h \in Hosts, NEW how, Lose(h, how) PROVE CallsInv'
  <2>1. /\ UNCHANGED <<client, served, done>>
        /\ call' = call \/ (call.at = "sent" /\ call' = [call EXCEPT !.at = "broken"])
    BY <1>10 DEF Lose
  <2> QED BY <2>1, CallsSame, MovedStep DEF Places
<1>11. ASSUME NEW a \in served, Drop(a) \/ Execute(a, TRUE) \/ Execute(a, FALSE) PROVE CallsInv'
  BY <1>11, DropStep, ExecuteStep
<1>12. CASE Enter \/ EnterHosts
  BY <1>12, CallsSame DEF Enter, EnterHosts, unary
<1>13. ASSUME NEW h \in Hosts, Return(h) PROVE CallsInv'
  BY <1>13, CallsSame DEF Return, unary
<1>14. CASE Streaming
  BY <1>14, CallsSame DEF Streaming, OpenStream, Receive, Break, StreamDeadline, Finish, OpenStreams,
    Read, SetStop, Stopped, Leave, unary
<1>15. CASE UNCHANGED vars
  BY <1>15, CallsSame DEF vars, unary
<1> QED
  BY <1>1, <1>2, <1>3, <1>4, <1>5, <1>6, <1>7, <1>8, <1>9, <1>10, <1>11, <1>12, <1>13, <1>14, <1>15
    DEF Next, Unary

-----------------------------------------------------------------------------
(* A mark is no message.                                                   *)
LEMMA MarksApart == \A x \in Marks, h \in Hosts : ~From(x, h)
<1>1. \A x \in Message : DOMAIN x = {"label", "from", "k"}
  BY DEF Message
<1>2. DOMAIN Ended = {"end"} /\ DOMAIN Failed = {"end"}
  BY DEF Ended, Failed
<1> QED BY <1>1, <1>2 DEF Marks, From

(* Marks behind the queue change nothing.                                  *)
LEMMA CarriedMarks ==
  ASSUME NEW q \in Seq(Message \cup Marks), NEW marks \in Seq(Marks), NEW y \in Seq(Item),
         NEW g \in Nat, NEW h \in Hosts, Carried(q, y, g, h)
  PROVE  Carried(q \o marks, y, g, h) /\ q \o marks \in Seq(Message \cup Marks)
<1> DEFINE p == q \o marks
<1>1. /\ Len(q) \in Nat /\ Len(marks) \in Nat /\ Len(p) = Len(q) + Len(marks)
      /\ \A i \in 1..Len(q) : p[i] = q[i]
      /\ \A i \in 1..Len(p) : i > Len(q) => p[i] \in Marks
  OBVIOUS
<1>2. \A i \in 1..Len(p) : From(p[i], h) => i \in 1..Len(q) /\ p[i] = q[i]
  BY <1>1, MarksApart
<1>3. p \in Seq(Message \cup Marks)
  OBVIOUS
<1>4. \A i \in 1..Len(q) : i \in 1..Len(p) /\ p[i] = q[i]
  BY <1>1
<1> HIDE DEF p
<1>5. Carried(p, y, g, h)
  BY <1>2, <1>4 DEF Carried
<1> QED BY <1>3, <1>5 DEF p

(* A message of another host changes nothing.                              *)
LEMMA CarriedOther ==
  ASSUME NEW q \in Seq(Message \cup Marks), NEW x \in Message, NEW y \in Seq(Item),
         NEW g \in Nat, NEW h \in Hosts, Carried(q, y, g, h), x.from # h
  PROVE  Carried(Append(q, x), y, g, h)
<1> DEFINE p == Append(q, x)
<1>1. Len(q) \in Nat /\ Len(p) = Len(q) + 1 /\ p[Len(q) + 1] = x /\ \A i \in 1..Len(q) : p[i] = q[i]
  OBVIOUS
<1>2. \A i \in 1..Len(p) : From(p[i], h) => i \in 1..Len(q) /\ p[i] = q[i]
  BY <1>1 DEF From
<1>3. \A i \in 1..Len(q) : i \in 1..Len(p) /\ p[i] = q[i]
  BY <1>1
<1> HIDE DEF p
<1>4. Carried(p, y, g, h)
  BY <1>2, <1>3 DEF Carried
<1> QED BY <1>4 DEF p

(* The next message of the host, with the right label.                     *)
LEMMA CarriedReceive ==
  ASSUME NEW q \in Seq(Message \cup Marks), NEW y \in Seq(Item), NEW g \in Nat, NEW h \in Hosts,
         Carried(q, y, g, h)
  PROVE  Carried(Append(q, [label |-> h, from |-> h, k |-> g + 1]), y, g + 1, h)
<1> DEFINE x == [label |-> h, from |-> h, k |-> g + 1]
           p == Append(q, x)
<1>1. /\ Len(q) \in Nat /\ Len(p) = Len(q) + 1 /\ p[Len(q) + 1] = x
      /\ \A i \in 1..Len(q) : p[i] = q[i]
      /\ \A i \in 1..Len(q) : i \in 1..Len(p)
      /\ Len(q) + 1 \in 1..Len(p)
      /\ \A i \in 1..Len(p) : i \in 1..Len(q) \/ i = Len(q) + 1
  OBVIOUS
<1>2. From(x, h) /\ x.label = h /\ x.k = g + 1
  BY DEF From, Message
<1>3. Len(y) \in Nat
  OBVIOUS
<1>4. \A i \in 1..Len(q) : From(q[i], h) => q[i].k \in Nat
  BY DEF From, Message
<1> HIDE DEF x, p
<1>5. Len(y) <= g + 1 /\ \A i \in 1..Len(y) : y[i] = [from |-> h, k |-> i]
  BY <1>3 DEF Carried
<1>6. \A i \in 1..Len(p) : From(p[i], h) => p[i].label = h /\ Len(y) < p[i].k /\ p[i].k <= g + 1
  <2> TAKE i \in 1..Len(p)
  <2>1. CASE i \in 1..Len(q)
    BY <1>1, <1>3, <1>4, <2>1 DEF Carried
  <2>2. CASE i = Len(q) + 1
    BY <1>1, <1>2, <1>3, <2>2 DEF Carried
  <2> QED BY <1>1, <2>1, <2>2
<1>7. \A i, j \in 1..Len(p) : i < j /\ From(p[i], h) /\ From(p[j], h) => p[i].k < p[j].k
  <2> SUFFICES ASSUME NEW i \in 1..Len(p), NEW j \in 1..Len(p), i < j, From(p[i], h), From(p[j], h)
               PROVE  p[i].k < p[j].k
    OBVIOUS
  <2>1. i \in 1..Len(q) /\ p[i] = q[i]
    BY <1>1
  <2>2. CASE j \in 1..Len(q)
    BY <1>1, <2>1, <2>2 DEF Carried
  <2>3. CASE j = Len(q) + 1
    BY <1>1, <1>2, <1>4, <2>1, <2>3 DEF Carried
  <2> QED BY <1>1, <2>2, <2>3
<1>8. \A k \in Len(y) + 1 .. g + 1 : \E i \in 1..Len(p) : From(p[i], h) /\ p[i].k = k
  <2> TAKE k \in Len(y) + 1 .. g + 1
  <2>1. CASE k = g + 1
    BY <1>1, <1>2, <2>1
  <2>2. CASE k # g + 1
    <3>1. k \in Len(y) + 1 .. g
      BY <1>3, <2>2
    <3>2. PICK i \in 1..Len(q) : From(q[i], h) /\ q[i].k = k
      BY <3>1 DEF Carried
    <3> QED BY <1>1, <3>2
  <2> QED BY <2>1, <2>2
<1>9. Carried(p, y, g + 1, h)
  BY <1>5, <1>6, <1>7, <1>8 DEF Carried
<1> QED BY <1>9 DEF p, x

(* The caller gets past something that is not of the host.                 *)
LEMMA CarriedTail ==
  ASSUME NEW q \in Seq(Message \cup Marks), NEW y \in Seq(Item), NEW g \in Nat, NEW h \in Hosts,
         Carried(q, y, g, h), q # <<>>, ~From(Head(q), h)
  PROVE  Carried(Tail(q), y, g, h)
<1> DEFINE p == Tail(q)
<1>1. /\ Len(q) \in Nat /\ Len(q) > 0 /\ Len(p) = Len(q) - 1 /\ Head(q) = q[1]
      /\ \A i \in 1..Len(p) : i + 1 \in 1..Len(q) /\ p[i] = q[i + 1]
      /\ \A i \in 1..Len(q) : i # 1 => i - 1 \in 1..Len(p) /\ p[i - 1] = q[i]
  OBVIOUS
<1> HIDE DEF p
<1>2. \A i \in 1..Len(p) : From(p[i], h) => p[i].label = h /\ Len(y) < p[i].k /\ p[i].k <= g
  BY <1>1 DEF Carried
<1>3. \A i, j \in 1..Len(p) : i < j /\ From(p[i], h) /\ From(p[j], h) => p[i].k < p[j].k
  <2> SUFFICES ASSUME NEW i \in 1..Len(p), NEW j \in 1..Len(p), i < j, From(p[i], h), From(p[j], h)
               PROVE  p[i].k < p[j].k
    OBVIOUS
  <2>1. i + 1 \in 1..Len(q) /\ j + 1 \in 1..Len(q) /\ i + 1 < j + 1 /\ p[i] = q[i + 1] /\ p[j] = q[j + 1]
    BY <1>1
  <2> QED BY <2>1 DEF Carried
<1>4. \A k \in Len(y) + 1 .. g : \E i \in 1..Len(p) : From(p[i], h) /\ p[i].k = k
  <2> TAKE k \in Len(y) + 1 .. g
  <2>1. PICK i \in 1..Len(q) : From(q[i], h) /\ q[i].k = k
    BY DEF Carried
  <2>2. i # 1
    BY <1>1, <2>1
  <2> QED BY <1>1, <2>1, <2>2
<1>5. Carried(p, y, g, h)
  BY <1>2, <1>3, <1>4 DEF Carried
<1> QED BY <1>5 DEF p

(* The caller gets the next message of the host.                           *)
LEMMA CarriedRead ==
  ASSUME NEW q \in Seq(Message \cup Marks), NEW y \in Seq(Item), NEW g \in Nat, NEW h \in Hosts,
         Carried(q, y, g, h), q # <<>>, From(Head(q), h)
  PROVE  Carried(Tail(q), Append(y, [from |-> h, k |-> Head(q).k]), g, h)
<1> DEFINE p == Tail(q)
           n == Len(y)
           z == Append(y, [from |-> h, k |-> n + 1])
<1>1. /\ Len(q) \in Nat /\ Len(q) > 0 /\ Len(p) = Len(q) - 1 /\ Head(q) = q[1] /\ 1 \in 1..Len(q)
      /\ \A i \in 1..Len(p) : i + 1 \in 1..Len(q) /\ p[i] = q[i + 1]
      /\ \A i \in 1..Len(q) : i # 1 => i - 1 \in 1..Len(p) /\ p[i - 1] = q[i]
  OBVIOUS
<1>2. n \in Nat /\ Len(z) = n + 1 /\ z[n + 1] = [from |-> h, k |-> n + 1] /\ \A i \in 1..n : z[i] = y[i]
  OBVIOUS
<1>3. \A i \in 1..Len(q) : From(q[i], h) => q[i].k \in Nat
  BY DEF From, Message
<1> HIDE DEF p, z
<1>4. From(q[1], h) /\ q[1].k \in Nat /\ n < q[1].k /\ q[1].k <= g
  BY <1>1, <1>3 DEF Carried
<1>5. q[1].k = n + 1
  <2>1. PICK i \in 1..Len(q) : From(q[i], h) /\ q[i].k = n + 1
    <3>1. n + 1 \in n + 1 .. g
      BY <1>1, <1>2, <1>3, <1>4
    <3> QED BY <3>1 DEF Carried
  <2>2. i # 1 => q[1].k < q[i].k
    BY <1>1, <2>1 DEF Carried
  <2> QED BY <1>2, <1>4, <2>1, <2>2
<1>6. Len(z) <= g /\ \A i \in 1..Len(z) : z[i] = [from |-> h, k |-> i]
  <2>1. Len(z) <= g
    BY <1>2, <1>4, <1>5
  <2>2. ASSUME NEW i \in 1..Len(z) PROVE z[i] = [from |-> h, k |-> i]
    <3>1. CASE i = n + 1
      BY <1>2, <3>1
    <3>2. CASE i # n + 1
      <4>1. i \in 1..n
        BY <1>2, <3>2
      <4> QED BY <1>2, <4>1 DEF Carried
    <3> QED BY <3>1, <3>2
  <2> QED BY <2>1, <2>2
<1>7. \A i \in 1..Len(p) : From(p[i], h) => p[i].label = h /\ Len(z) < p[i].k /\ p[i].k <= g
  <2> SUFFICES ASSUME NEW i \in 1..Len(p), From(p[i], h)
               PROVE  p[i].label = h /\ Len(z) < p[i].k /\ p[i].k <= g
    OBVIOUS
  <2>1. i + 1 \in 1..Len(q) /\ p[i] = q[i + 1] /\ 1 < i + 1
    BY <1>1
  <2>2. q[1].k < p[i].k
    BY <1>1, <2>1 DEF Carried
  <2> QED BY <1>2, <1>3, <1>5, <2>1, <2>2 DEF Carried
<1>8. \A i, j \in 1..Len(p) : i < j /\ From(p[i], h) /\ From(p[j], h) => p[i].k < p[j].k
  <2> SUFFICES ASSUME NEW i \in 1..Len(p), NEW j \in 1..Len(p), i < j, From(p[i], h), From(p[j], h)
               PROVE  p[i].k < p[j].k
    OBVIOUS
  <2>1. i + 1 \in 1..Len(q) /\ j + 1 \in 1..Len(q) /\ i + 1 < j + 1 /\ p[i] = q[i + 1] /\ p[j] = q[j + 1]
    BY <1>1
  <2> QED BY <2>1 DEF Carried
<1>9. \A k \in Len(z) + 1 .. g : \E i \in 1..Len(p) : From(p[i], h) /\ p[i].k = k
  <2> TAKE k \in Len(z) + 1 .. g
  <2>1. k \in n + 1 .. g /\ k # n + 1
    BY <1>2
  <2>2. PICK i \in 1..Len(q) : From(q[i], h) /\ q[i].k = k
    BY <2>1 DEF Carried
  <2>3. i # 1
    BY <1>5, <2>1, <2>2
  <2> QED BY <1>1, <2>2, <2>3
<1>10. Carried(p, z, g, h)
  BY <1>6, <1>7, <1>8, <1>9 DEF Carried
<1> QED BY <1>1, <1>5, <1>10 DEF p, z

-----------------------------------------------------------------------------
(* The marks at the end of streams.                                        *)
LEMMA EndMarksType ==
  ASSUME NEW n \in Nat, NEW failed \in BOOLEAN
  PROVE  EndMarks(n, failed) \in Seq(Marks)
<1>1. Ended \in Marks /\ (IF failed /\ StreamOf(client).error = "raise" THEN Failed ELSE Ended) \in Marks
  BY DEF Marks
<1>2. /\ [i \in 1..n |-> Ended] \in Seq(Marks)
      /\ [i \in 1..n |-> IF failed /\ StreamOf(client).error = "raise" THEN Failed ELSE Ended] \in Seq(Marks)
  BY <1>1
<1> QED BY <1>2 DEF EndMarks, Sentinels

(* A stream in another state is a stream.                                  *)
LEMMA StreamAt ==
  ASSUME NEW s \in Stream, NEW at \in {"none", "open", "broken", "over"}
  PROVE  [s EXCEPT !.at = at] \in Stream /\ [s EXCEPT !.at = at].got = s.got
BY DEF Stream

(* Streams change, but not what they have brought; marks are put.          *)
LEMMA StreamsOver ==
  ASSUME MergeInv, NEW marks \in Seq(Marks), queue' = queue \o marks,
         stream' \in [Hosts -> Stream],
         \A h \in Hosts : stream'[h].got = stream[h].got,
         UNCHANGED <<valid, labels, yielded>>,
         phase' = "new" => phase = "new" /\ reader' = reader,
         reader' \in [at : {"none", "reading", "ended", "raised", "left"}, finished : Nat],
         reader'.at = "none" => reader.at = "none" /\ stream' = stream /\ marks = <<>>
  PROVE  MergeInv'
<1>1. queue' \in Seq(Message \cup Marks)
  BY DEF MergeInv, StreamTypes
<1>2. StreamTypes'
  BY <1>1 DEF MergeInv, StreamTypes
<1>3. ASSUME valid' = Hosts, NEW h \in Hosts PROVE Carried(queue', yielded'[h], stream'[h].got, h)
  <2>1. /\ yielded[h] \in Seq(Item) /\ stream[h].got \in Nat /\ queue \in Seq(Message \cup Marks)
        /\ Carried(queue, yielded[h], stream[h].got, h)
    BY <1>3 DEF MergeInv, StreamTypes, Stream
  <2>2. Carried(queue \o marks, yielded[h], stream[h].got, h)
    BY <2>1, CarriedMarks
  <2> QED BY <2>2
<1>4. reader'.at = "none" => Unread'
  <2> SUFFICES ASSUME reader'.at = "none" PROVE Unread'
    OBVIOUS
  <2>1. queue = <<>> /\ marks = <<>> /\ Unread
    BY DEF MergeInv, Unread
  <2>2. queue' = <<>>
    BY <2>1
  <2> QED BY <2>1, <2>2 DEF Unread
<1>5. phase' = "new" => reader'.at = "none"
  BY DEF MergeInv
<1> QED BY <1>2, <1>3, <1>4, <1>5 DEF MergeInv

(* The streams under way are cancelled.                                    *)
LEMMA CancelStep ==
  ASSUME MergeInv, CancelStreams, UNCHANGED <<valid, labels, yielded>>,
         phase' # "new" \/ (phase' = phase /\ reader' = reader),
         reader' = reader \/ (reader.at = "reading" /\ reader' \in
           [at : {"reading", "ended", "raised", "left"}, finished : Nat])
  PROVE  MergeInv'
<1> DEFINE marks == EndMarks(Cardinality(Running), TRUE)
<1>1. IsFiniteSet(Running) /\ Cardinality(Running) \in Nat
  BY FS_Subset, FS_CardinalityType, ClientsAssumption DEF Running
<1>2. marks \in Seq(Marks)
  BY <1>1, EndMarksType
<1>3. /\ stream' \in [Hosts -> Stream]
      /\ \A h \in Hosts : stream'[h].got = stream[h].got
  <2>1. stream \in [Hosts -> Stream]
    BY DEF MergeInv, StreamTypes
  <2>2. \A h \in Hosts : stream[h] \in Stream /\ stream'[h] \in Stream /\ stream'[h].got = stream[h].got
    BY <2>1, StreamAt DEF CancelStreams
  <2>3. stream' = [h \in Hosts |-> stream'[h]]
    BY DEF CancelStreams
  <2> QED BY <2>2, <2>3
<1>4. queue' = queue \o marks
  BY DEF CancelStreams
<1>5. ASSUME reader'.at = "none" PROVE reader.at = "none" /\ stream' = stream /\ marks = <<>>
  <2>1. reader' = reader /\ reader.at = "none" /\ Unread
    BY <1>5 DEF MergeInv
  <2>2. Running = {}
    BY <2>1 DEF Unread, NoStream, Running
  <2>3. stream' = stream
    BY <2>1, <2>2 DEF CancelStreams, Unread
  <2>4. Cardinality(Running) = 0
    BY <2>2, FS_EmptySet
  <2>5. marks = <<>>
    BY <2>4 DEF EndMarks, Sentinels
  <2> QED BY <2>1, <2>3, <2>5
<1>6. reader' \in [at : {"none", "reading", "ended", "raised", "left"}, finished : Nat]
  BY DEF MergeInv, StreamTypes
<1>7. phase' = "new" => phase = "new" /\ reader' = reader
  OBVIOUS
<1> HIDE DEF marks
<1> QED BY <1>2, <1>3, <1>4, <1>5, <1>6, <1>7, StreamsOver

(* One stream is over or is tried again.                                   *)
LEMMA OverStep ==
  ASSUME MergeInv, NEW h \in Hosts, NEW failed \in BOOLEAN, stream[h].at \in {"open", "broken"},
         Over(h, failed), UNCHANGED <<valid, labels, yielded, phase, reader>>
  PROVE  MergeInv'
<1>1. EndMarks(1, failed) \in Seq(Marks)
  BY EndMarksType
<1>2. queue' = queue \o EndMarks(1, failed)
  BY DEF Over
<1>3. /\ stream' \in [Hosts -> Stream]
      /\ \A g \in Hosts : stream'[g].got = stream[g].got
  <2>1. stream \in [Hosts -> Stream] /\ stream' = [stream EXCEPT ![h] = [stream[h] EXCEPT !.at = "over"]]
    BY DEF Over, MergeInv, StreamTypes
  <2>2. [stream[h] EXCEPT !.at = "over"] \in Stream /\ [stream[h] EXCEPT !.at = "over"].got = stream[h].got
    BY <2>1, StreamAt
  <2> QED BY <2>1, <2>2
<1>4. reader.at # "none"
  BY DEF MergeInv, Unread, NoStream
<1>5. reader' \in [at : {"none", "reading", "ended", "raised", "left"}, finished : Nat]
  BY DEF MergeInv, StreamTypes
<1> QED BY <1>1, <1>2, <1>3, <1>4, <1>5, StreamsOver

(* A stream's state changes and nothing else.                              *)
LEMMA StreamMoved ==
  ASSUME MergeInv, NEW h \in Hosts, NEW at \in {"none", "open", "broken", "over"}, NEW n \in Nat,
         stream[h].at # "none", stream' = [stream EXCEPT ![h] = [@ EXCEPT !.at = at, !.n = n]],
         UNCHANGED <<valid, labels, yielded, phase, reader, queue>>
  PROVE  MergeInv'
<1>1. /\ stream' \in [Hosts -> Stream]
      /\ \A g \in Hosts : stream'[g].got = stream[g].got
  <2>1. stream \in [Hosts -> Stream]
    BY DEF MergeInv, StreamTypes
  <2> DEFINE s == [stream[h] EXCEPT !.at = at, !.n = n]
  <2>2. s \in Stream /\ s.got = stream[h].got
    <3>1. stream[h] \in Stream
      BY <2>1
    <3> QED BY <3>1 DEF Stream
  <2>3. stream' = [stream EXCEPT ![h] = s]
    OBVIOUS
  <2> HIDE DEF s
  <2> QED BY <2>1, <2>2, <2>3
<1>2. reader.at # "none"
  BY DEF MergeInv, Unread, NoStream
<1>3. <<>> \in Seq(Marks) /\ queue' = queue \o <<>>
  BY DEF MergeInv, StreamTypes
<1>4. reader' \in [at : {"none", "reading", "ended", "raised", "left"}, finished : Nat]
  BY DEF MergeInv, StreamTypes
<1> QED BY <1>1, <1>2, <1>3, <1>4, StreamsOver

(* zip() gives every host its own label when all of them are connected.    *)
LEMMA LabelsRight ==
  ASSUME NEW S \in SUBSET Hosts, NEW asked \in SetToSeqs(S), valid \in SUBSET Hosts
  PROVE  /\ Labels(asked) \in [Hosts -> Hosts]
         /\ valid = Hosts => \A h \in Hosts : Labels(asked)[h] = h
<1> DEFINE n == Cardinality(S)
<1>1. IsFiniteSet(S) /\ n \in Nat
  BY FS_Subset, FS_CardinalityType, ClientsAssumption
<1>2. asked \in [1..n -> S]
  BY DEF SetToSeqs
<1> HIDE DEF n
<1>3. ASSUME NEW h \in ToSet(asked) \cap valid
      PROVE  LET at == Cardinality({i \in 1..Place(asked, h) : asked[i] \in valid})
             IN  asked[at] \in Hosts /\ (valid = Hosts => asked[at] = h)
  <2> DEFINE p == Place(asked, h)
             I == {i \in 1..p : asked[i] \in valid}
  <2>1. p \in 1..n /\ asked[p] = h
    <3>1. \E x \in DOMAIN asked : asked[x] = h
      BY DEF ToSet
    <3> QED BY <3>1, <1>2 DEF Place
  <2> HIDE DEF p
  <2>2. IsFiniteSet(1..p) /\ Cardinality(1..p) = p
    BY <1>1, <2>1, FS_Interval
  <2>3. I \in SUBSET (1..p) /\ I # {}
    BY <1>1, <2>1
  <2> HIDE DEF I
  <2>4. IsFiniteSet(I) /\ Cardinality(I) <= p /\ Cardinality(I) \in Nat /\ Cardinality(I) # 0
    <3>1. IsFiniteSet(I) /\ Cardinality(I) <= Cardinality(1..p)
      BY <2>2, <2>3, FS_Subset
    <3>2. Cardinality(I) \in Nat
      BY <3>1, FS_CardinalityType
    <3>3. Cardinality(I) # 0
      BY <2>3, <3>1, FS_EmptySet
    <3> QED BY <2>2, <3>1, <3>2, <3>3
  <2>5. Cardinality(I) \in 1..n
    BY <1>1, <2>1, <2>4
  <2>6. asked[Cardinality(I)] \in Hosts
    BY <1>2, <2>5
  <2>7. valid = Hosts => I = 1..p
    BY <1>1, <1>2, <2>1 DEF I
  <2>8. valid = Hosts => asked[Cardinality(I)] = h
    BY <2>1, <2>2, <2>7
  <2> QED BY <2>6, <2>8 DEF I, p
<1> QED BY <1>3 DEF Labels

(* Nothing the reader sees changes.                                        *)
LEMMA MergeSame ==
  ASSUME MergeInv, UNCHANGED <<valid, stream, labels, queue, reader, yielded>>,
         phase' = "new" => phase = "new"
  PROVE  MergeInv'
BY DEF MergeInv, StreamTypes, Unread

(* capture_ublox() starts: every stream from its first message.            *)
LEMMA OpenStreamsStep ==
  ASSUME MergeInv, valid \in SUBSET Hosts, NEW S \in SUBSET Hosts, NEW asked \in SetToSeqs(S),
         OpenStreams(asked)
  PROVE  MergeInv'
<1>1. /\ phase = "open" /\ phase' = "open" /\ reader.at = "none" /\ Unread
      /\ labels' = Labels(asked) /\ UNCHANGED <<valid, queue, yielded>>
  BY DEF OpenStreams, MergeInv, unary
<1>2. labels' \in [Hosts -> Hosts] /\ (valid = Hosts => \A h \in Hosts : labels'[h] = h)
  BY <1>1, LabelsRight
<1>3. stream' \in [Hosts -> Stream] /\ \A h \in Hosts : stream'[h].got = 0
  BY DEF OpenStreams, Stream, NoStream
<1>4. reader' \in [at : {"none", "reading", "ended", "raised", "left"}, finished : Nat]
      /\ reader'.at # "none"
  BY DEF OpenStreams, MergeInv, StreamTypes
<1>5. queue' = <<>> /\ \A h \in Hosts : yielded'[h] = <<>>
  BY <1>1 DEF Unread
<1>6. \A h \in Hosts : Carried(queue', yielded'[h], stream'[h].got, h)
  BY <1>3, <1>5 DEF Carried
<1>7. StreamTypes'
  BY <1>1, <1>2, <1>3, <1>4 DEF StreamTypes, MergeInv
<1> QED BY <1>1, <1>2, <1>4, <1>6, <1>7 DEF MergeInv

(* A message arrives.                                                      *)
LEMMA ReceiveStep ==
  ASSUME MergeInv, NEW h \in Hosts, Receive(h)
  PROVE  MergeInv'
<1> DEFINE g == stream[h].got
           x == [label |-> labels[h], from |-> h, k |-> g + 1]
<1>1. /\ StreamTypes /\ stream[h] \in Stream /\ g \in Nat /\ labels[h] \in Hosts
      /\ queue \in Seq(Message \cup Marks)
  BY DEF MergeInv, StreamTypes, Stream
<1>2. /\ stream' = [stream EXCEPT ![h].got = g + 1] /\ queue' = Append(queue, x)
      /\ UNCHANGED <<phase, valid, labels, reader, yielded>> /\ stream[h].at = "open"
  BY DEF Receive
<1>3. x \in Message /\ x.from = h
  BY <1>1 DEF Message
<1>4. /\ stream' \in [Hosts -> Stream] /\ stream'[h].got = g + 1
      /\ \A f \in Hosts : f # h => stream'[f].got = stream[f].got
  <2> DEFINE s == [stream[h] EXCEPT !.got = g + 1]
  <2>1. s \in Stream /\ s.got = g + 1
    BY <1>1 DEF Stream
  <2>2. stream \in [Hosts -> Stream] /\ stream' = [stream EXCEPT ![h] = s]
    BY <1>1, <1>2 DEF StreamTypes
  <2> HIDE DEF s
  <2> QED BY <2>1, <2>2
<1>5. reader.at # "none"
  BY <1>2 DEF MergeInv, Unread, NoStream
<1>6. queue' \in Seq(Message \cup Marks)
  BY <1>1, <1>2, <1>3
<1>7. StreamTypes'
  BY <1>1, <1>2, <1>4, <1>6 DEF StreamTypes
<1>8. ASSUME valid = Hosts, NEW f \in Hosts PROVE Carried(queue', yielded[f], stream'[f].got, f)
  <2>1. /\ yielded[f] \in Seq(Item) /\ stream[f].got \in Nat
        /\ Carried(queue, yielded[f], stream[f].got, f) /\ labels[h] = h
    BY <1>8 DEF MergeInv, StreamTypes, Stream
  <2>2. CASE f = h
    <3>1. Carried(Append(queue, [label |-> h, from |-> h, k |-> g + 1]), yielded[h], g + 1, h)
      BY <1>1, <2>1, <2>2, CarriedReceive
    <3> QED BY <1>2, <1>4, <2>1, <2>2, <3>1
  <2>3. CASE f # h
    <3> HIDE DEF x
    <3>1. Carried(Append(queue, x), yielded[f], stream[f].got, f)
      BY <1>1, <1>3, <2>1, <2>3, CarriedOther
    <3> QED BY <1>2, <1>4, <2>3, <3>1
  <2> QED BY <2>2, <2>3
<1> QED BY <1>2, <1>5, <1>7, <1>8 DEF MergeInv

(* The reader takes what is first in the queue.                            *)
LEMMA ReadStep ==
  ASSUME MergeInv, Read
  PROVE  MergeInv'
<1> DEFINE x == Head(queue)
<1>1. /\ StreamTypes /\ reader.at = "reading" /\ queue # <<>> /\ queue' = Tail(queue)
      /\ UNCHANGED <<phase, valid, labels, stream>>
  BY DEF MergeInv, Read
<1>2. queue \in Seq(Message \cup Marks) /\ queue' \in Seq(Message \cup Marks)
      /\ x \in Message \cup Marks
  BY <1>1 DEF StreamTypes
<1>3. reader' \in [at : {"none", "reading", "ended", "raised", "left"}, finished : Nat]
      /\ reader'.at # "none"
  BY <1>1 DEF Read, StreamTypes
<1>4. CASE x \in Marks
  <2>1. yielded' = yielded
    BY <1>4 DEF Read, Marks
  <2>2. StreamTypes'
    BY <1>1, <1>2, <1>3, <2>1 DEF StreamTypes
  <2>3. ASSUME valid = Hosts, NEW f \in Hosts PROVE Carried(queue', yielded[f], stream[f].got, f)
    <3>1. /\ yielded[f] \in Seq(Item) /\ stream[f].got \in Nat
          /\ Carried(queue, yielded[f], stream[f].got, f) /\ ~From(x, f)
      BY <1>4, <2>3, MarksApart DEF MergeInv, StreamTypes, Stream
    <3> QED BY <1>1, <1>2, <3>1, CarriedTail
  <2> QED BY <1>1, <1>3, <2>1, <2>2, <2>3 DEF MergeInv
<1>5. CASE x \notin Marks
  <2>1. x \in Message /\ x.label \in Hosts /\ x.from \in Hosts /\ x.k \in Nat
    BY <1>2, <1>5 DEF Message
  <2>2. yielded' = [yielded EXCEPT ![x.label] = Append(@, [from |-> x.from, k |-> x.k])]
    BY <1>5 DEF Read, Marks
  <2>3. yielded' \in [Hosts -> Seq(Item)]
    <3>1. [from |-> x.from, k |-> x.k] \in Item
      BY <2>1 DEF Item
    <3> QED BY <1>1, <2>1, <2>2, <3>1 DEF StreamTypes
  <2>4. StreamTypes'
    BY <1>1, <1>2, <1>3, <2>3 DEF StreamTypes
  <2>5. ASSUME valid = Hosts, NEW f \in Hosts PROVE Carried(queue', yielded'[f], stream[f].got, f)
    <3>1. /\ yielded[f] \in Seq(Item) /\ stream[f].got \in Nat
          /\ Carried(queue, yielded[f], stream[f].got, f)
          /\ Carried(queue, yielded[x.from], stream[x.from].got, x.from)
      BY <2>1, <2>5 DEF MergeInv, StreamTypes, Stream
    <3>2. x.label = x.from
      <4>1. Len(queue) \in Nat /\ 1 \in 1..Len(queue) /\ x = queue[1] /\ From(x, x.from)
        BY <1>1, <1>2, <2>1 DEF From
      <4> QED BY <3>1, <4>1 DEF Carried
    <3> HIDE DEF x
    <3>3. CASE f = x.from
      <4>1. yielded'[f] = Append(yielded[f], [from |-> f, k |-> x.k]) /\ From(x, f)
        BY <1>1, <2>1, <2>2, <3>2, <3>3 DEF StreamTypes, From
      <4> QED BY <1>1, <1>2, <3>1, <4>1, CarriedRead DEF x
    <3>4. CASE f # x.from
      <4>1. yielded'[f] = yielded[f] /\ ~From(x, f)
        BY <1>1, <2>1, <2>2, <3>2, <3>4 DEF StreamTypes, From
      <4> QED BY <1>1, <1>2, <3>1, <4>1, CarriedTail DEF x
    <3> QED BY <3>3, <3>4
  <2> QED BY <1>1, <1>3, <2>4, <2>5 DEF MergeInv
<1> QED BY <1>4, <1>5

(* No step of the asynchronous client for the F9T mixes its streams up.    *)
LEMMA MergeStep ==
  ASSUME MergeInv, client = AioUbloxControlClient, valid \in SUBSET Hosts, [Next]_vars
  PROVE  MergeInv'
<1>1. client \in Ubloxes /\ client # TelemetryClient /\ client # UbloxControlClient
  BY DEF Ubloxes, AioUbloxControlClient, TelemetryClient, UbloxControlClient, Class
<1>2. reader \in [at : {"none", "reading", "ended", "raised", "left"}, finished : Nat]
  BY DEF MergeInv, StreamTypes
<1>3. CASE Enter
  BY <1>1, <1>3 DEF Enter
<1>4. CASE EnterHosts
  <2>1. phase = "new" /\ phase' = "open" /\ UNCHANGED <<stream, labels, queue, reader, yielded>>
        /\ Unread /\ reader.at = "none"
    BY <1>4 DEF EnterHosts, streams, MergeInv
  <2>2. \A h \in Hosts : labels[h] = h /\ Carried(queue, yielded[h], stream[h].got, h)
    BY <2>1 DEF Unread, Carried, NoStream
  <2>3. StreamTypes'
    BY <2>1 DEF MergeInv, StreamTypes
  <2> QED BY <2>1, <2>2, <2>3 DEF MergeInv, Unread
<1>5. CASE Exit
  BY <1>5, CancelStep DEF Exit
<1>6. ASSUME NEW h \in Hosts, NEW how, Lose(h, how) PROVE MergeInv'
  <2>1. UNCHANGED <<phase, valid, labels, queue, reader, yielded>>
    BY <1>6 DEF Lose
  <2>2. CASE stream' = stream
    BY <2>1, <2>2, MergeSame
  <2>3. CASE stream[h].at = "open" /\ stream' = [stream EXCEPT ![h].at = "broken"]
    <3>1. stream \in [Hosts -> Stream] /\ stream[h] \in Stream /\ stream[h].n \in Nat
      BY DEF MergeInv, StreamTypes, Stream
    <3>2. stream' = [stream EXCEPT ![h] = [@ EXCEPT !.at = "broken", !.n = stream[h].n]]
      BY <2>3, <3>1 DEF Stream
    <3> QED BY <2>1, <2>3, <3>1, <3>2, StreamMoved
  <2> QED BY <1>6, <2>2, <2>3 DEF Lose
<1>7. ASSUME NEW h \in Hosts, Return(h) PROVE MergeInv'
  BY <1>7, MergeSame DEF Return, streams
<1>8. ASSUME NEW a \in served, Drop(a) \/ Execute(a, TRUE) \/ Execute(a, FALSE) PROVE MergeInv'
  BY <1>8, MergeSame DEF Drop, Execute, streams
<1>9. CASE Unary
  BY <1>9, MergeSame DEF Unary, Invoke, Misuse, Ping, InitF9t, BlockingInitF9t, Take, Deliver, Fail,
    Retry, Deadline, streams
<1>10. ASSUME NEW h \in Hosts, OpenStream(h) PROVE MergeInv'
  BY <1>10 DEF OpenStream
<1>11. ASSUME NEW h \in Hosts, Receive(h) PROVE MergeInv'
  BY <1>11, ReceiveStep
<1>12. ASSUME NEW h \in Hosts, Break(h) PROVE MergeInv'
  <2>1. /\ stream[h].at \in {"open", "broken"} /\ UNCHANGED <<valid, labels, yielded, phase, reader>>
        /\ \/ Over(h, TRUE)
           \/ stream' = [stream EXCEPT ![h].at = "open", ![h].n = @ + 1] /\ queue' = queue
    BY <1>12 DEF Break
  <2>2. CASE Over(h, TRUE)
    BY <2>1, <2>2, OverStep
  <2>3. CASE stream' = [stream EXCEPT ![h].at = "open", ![h].n = @ + 1] /\ queue' = queue
    <3>1. stream \in [Hosts -> Stream] /\ stream[h] \in Stream /\ stream[h].n + 1 \in Nat
      BY DEF MergeInv, StreamTypes, Stream
    <3>2. stream' = [stream EXCEPT ![h] = [@ EXCEPT !.at = "open", !.n = stream[h].n + 1]]
      BY <2>3, <3>1 DEF Stream
    <3> QED BY <2>1, <2>3, <3>1, <3>2, StreamMoved
  <2> QED BY <2>1, <2>2, <2>3
<1>13. ASSUME NEW h \in Hosts, StreamDeadline(h) PROVE MergeInv'
  BY <1>13, OverStep DEF StreamDeadline
<1>14. ASSUME NEW h \in Hosts, NEW failed \in BOOLEAN, Finish(h, failed) PROVE MergeInv'
  BY <1>14, OverStep DEF Finish
<1>15. ASSUME NEW S \in SUBSET Hosts, NEW asked \in SetToSeqs(S), OpenStreams(asked) PROVE MergeInv'
  BY <1>15, OpenStreamsStep
<1>16. CASE Read
  BY <1>16, ReadStep
<1>17. CASE SetStop
  BY <1>17, MergeSame DEF SetStop
<1>18. CASE Stopped
  <2>1. /\ reader.at = "reading" /\ CancelStreams /\ UNCHANGED <<valid, labels, yielded, phase>>
        /\ reader' = [reader EXCEPT !.at = "ended"]
    BY <1>18 DEF Stopped
  <2>2. reader' \in [at : {"reading", "ended", "raised", "left"}, finished : Nat]
    BY <1>2, <2>1
  <2>3. phase' # "new"
    BY <2>1 DEF MergeInv
  <2> QED BY <2>1, <2>2, <2>3, CancelStep
<1>19. CASE Leave
  <2>1. /\ reader.at = "reading" /\ UNCHANGED <<valid, labels, yielded, phase, stream, queue>>
        /\ reader' = [reader EXCEPT !.at = "left"]
    BY <1>19 DEF Leave
  <2>2. reader' \in [at : {"none", "reading", "ended", "raised", "left"}, finished : Nat]
        /\ reader'.at # "none"
    BY <1>2, <2>1
  <2>3. <<>> \in Seq(Marks) /\ queue' = queue \o <<>> /\ stream' \in [Hosts -> Stream]
    BY <2>1 DEF MergeInv, StreamTypes
  <2>4. phase' # "new"
    BY <2>1 DEF MergeInv
  <2> QED BY <2>1, <2>2, <2>3, <2>4, StreamsOver
<1>20. CASE UNCHANGED vars
  BY <1>20, MergeSame DEF vars, streams
<1> QED
  BY <1>3, <1>4, <1>5, <1>6, <1>7, <1>8, <1>9, <1>10, <1>11, <1>12, <1>13, <1>14, <1>15, <1>16, <1>17,
    <1>18, <1>19, <1>20 DEF Next, Streaming

-----------------------------------------------------------------------------
(* The initial states, for any class.                                      *)
LEMMA ClientInit == Init => ClientInv /\ valid \in SUBSET Hosts
<1> SUFFICES ASSUME Init PROVE ClientInv /\ valid \in SUBSET Hosts
  OBVIOUS
<1>1. valid \in SUBSET Hosts
  BY ClientsAssumption DEF Init
<1>2. Check \in AnyMethod /\ ~Check.effect
  BY DEF Check, Method, AnyMethod
<1>3. CallsKnown
  BY <1>2 DEF Init, CallsKnown, Classes, Idle, AnyCall, Places, Outcomes
<1>4. CallsInv
  BY <1>2, <1>3 DEF Init, CallsInv, DoneTrue, SentOnce, NotServed, Idle, Replies
<1>5. reader.at = "none" /\ Unread /\ StreamTypes
  BY DEF Init, Unread, StreamTypes, NoStream, Stream
<1>6. \A h \in Hosts : labels[h] = h /\ Carried(queue, yielded[h], stream[h].got, h)
  BY <1>5 DEF Unread, Carried, NoStream
<1> QED BY <1>1, <1>4, <1>5, <1>6 DEF ClientInv, MergeInv

(* A client has channels to its own hosts only.                            *)
LEMMA ValidStep ==
  ASSUME valid \in SUBSET Hosts, [Next]_vars
  PROVE  valid' \in SUBSET Hosts /\ client' = client
<1>1. CASE Enter \/ EnterHosts \/ Exit \/ \E h \in Hosts : Lose(h, "down") \/ Lose(h, "silent") \/ Return(h)
  BY <1>1, ClientsAssumption DEF Enter, EnterHosts, Exit, Lose, Return
<1>2. CASE Unary \/ \E a \in served : Drop(a) \/ Execute(a, TRUE) \/ Execute(a, FALSE)
  BY <1>2 DEF Unary, Invoke, Misuse, Ping, InitF9t, BlockingInitF9t, Take, Deliver, Fail, Retry,
    Deadline, Drop, Execute
<1>3. CASE Streaming
  BY <1>3 DEF Streaming, OpenStream, Receive, Break, StreamDeadline, Finish, OpenStreams, Read, SetStop,
    Stopped, Leave
<1>4. CASE UNCHANGED vars
  BY <1>4 DEF vars
<1> QED BY <1>1, <1>2, <1>3, <1>4 DEF Next

(* No step breaks the invariant of the clients.                            *)
LEMMA ClientStep ==
  ASSUME ClientInv, valid \in SUBSET Hosts, [Next]_vars
  PROVE  ClientInv' /\ valid' \in SUBSET Hosts
BY CallsStep, MergeStep, ValidStep DEF ClientInv

(* The inductive invariant of the clients: CallsInv and, for the client    *)
(* that merges streams, MergeInv.                                          *)
LEMMA ClientInvariant == Spec => []ClientInv
<1>1. Init => ClientInv /\ valid \in SUBSET Hosts
  BY ClientInit
<1>2. (ClientInv /\ valid \in SUBSET Hosts) /\ [Next]_vars => (ClientInv /\ valid \in SUBSET Hosts)'
  BY ClientStep
<1> QED BY <1>1, <1>2, PTL DEF Spec

(* What grpc_call() and the methods make of replies and errors is true of  *)
(* the server: success is said only of what was carried out, and when a    *)
(* client that sends each request once has a reply, the server is done     *)
(* with the call, for any number of attempts, faults and late answers.     *)
THEOREM CallsHonest == Spec => []AnswersHonest
<1>1. ClientInv => AnswersHonest
  <2> SUFFICES ASSUME ClientInv, call.at = "ended", call.method.effect, client \notin Ubloxes
               PROVE  /\ call.outcome = "done" => call.id \in done
                      /\ Replied /\ SendsOnce => \A a \in served : a[1] # call.id
    BY DEF AnswersHonest
  <2>1. call.outcome = "done" => call.id \in done
    BY DEF ClientInv, CallsInv, DoneTrue
  <2>2. SendsOnce => SentOnce
    BY ClassesKnown DEF ClientInv, CallsInv, CallsKnown, SendsOnce
  <2> QED BY <2>1, <2>2 DEF SentOnce, NotServed, Replied, Replies
<1> QED BY <1>1, ClientInvariant, PTL

(* capture_ublox() of several hosts that are all connected yields under    *)
(* the label of each host exactly its messages, from the first, in order   *)
(* and without a gap, for any number of hosts, lengths of streams and      *)
(* moments at which they break, are stopped or are left.                   *)
THEOREM StreamsMerged == Spec => []MergeFaithful
<1>1. ClientInv => MergeFaithful
  <2> SUFFICES ASSUME ClientInv, client.name = "AioUbloxControlClient", valid = Hosts, NEW h \in Hosts
               PROVE  \A i \in 1..Len(yielded[h]) : yielded[h][i] = [from |-> h, k |-> i]
    BY DEF MergeFaithful
  <2>1. client = AioUbloxControlClient
    BY ClassesKnown DEF ClientInv, CallsInv, CallsKnown
  <2>2. Carried(queue, yielded[h], stream[h].got, h)
    BY <2>1 DEF ClientInv, MergeInv
  <2> QED BY <2>2 DEF Carried
<1> QED BY <1>1, ClientInvariant, PTL
=============================================================================
