----------------------------- MODULE UtilProofs -----------------------------
(***************************************************************************)
(* Proofs about the utilities of src/util.                                 *)
(*                                                                         *)
(* SpkModem, for every frame size, set of amplitudes and other constants:  *)
(* the counts are those of the windows, the calibration and the learnt     *)
(* threshold stay where they should, and characters are what Receiver      *)
(* says.                                                                   *)
(*                                                                         *)
(* DellFlashUnlock, for any number of polls and detours and any machines:  *)
(* what its runs print is so (ToldTrue).                                   *)
(*                                                                         *)
(* NvmUtil, for any users, files, checksums, I/O errors and number of      *)
(* commands:                                                               *)
(*   - the file, in memory and on disk, is always a whole GbE file;        *)
(*   - it is replaced only by what a command makes of a content it had     *)
(*     (GbeFile), and the exit status tells whether it was;                *)
(*   - a file with a valid part always keeps one;                          *)
(*   - only killed processes leave temporary files.                        *)
(***************************************************************************)
EXTENDS SpkModem, DellFlashUnlock, NvmUtil, FiniteSetTheorems, TLAPS

(* spkmodem-decode: the parts of the inductive invariant. *)

RingType ==
  /\ stage \in {"start", "pulses"}
  /\ pulse \in [Ring -> {0, 1}]
  /\ ringpos \in Ring /\ sep_pos \in Ring
  /\ sample_count \in 0..N
  /\ prev_sample \in Samples

\* The windows are one frame apart.
Apart == sep_pos = IF ringpos < N THEN ringpos + N ELSE ringpos - N

CharType ==
  /\ ascii \subseteq (ascii_bit + 1)..(Bits - 1)
  /\ ascii_bit \in 0..(Bits - 1)
  /\ out \in {<<>>} \cup {<<c>> : c \in SUBSET (0..(Bits - 1))}

\* The average of what was accepted so far is in the range.
Calibrated ==
  /\ sep_sum \in Nat /\ sep_samples \in 0..(CalFrames - 1)
  /\ sep_min \in Int /\ sep_max = sep_min + 2 * SEP_TOLERANCE_PULSES
  /\ sep_samples * sep_min <= sep_sum /\ sep_sum <= sep_samples * sep_max

Learnt ==
  /\ freq_min \in Nat /\ freq_max \in Nat /\ freq_threshold \in Nat
  /\ learn_frames \in 0..LEARN_FRAMES
  /\ freq_threshold # FREQ_DATA_THRESHOLD =>
       learn_frames = LEARN_FRAMES /\ freq_min < freq_threshold /\ freq_threshold < freq_max

ModemInv == RingType /\ Apart /\ WindowSums /\ CharType /\ Calibrated /\ Learnt

-----------------------------------------------------------------------------
(* Windows and their pulses. *)

On(p, window) == {k \in window : p[k] = 1}

LEMMA WindowFinite ==
  ASSUME NEW from, NEW p
  PROVE  /\ IsFiniteSet(On(p, Window(from)))
         /\ Cardinality(On(p, Window(from))) \in Nat
<1>1. N \in Nat \ {0}  BY SpkModemAssumption
<1>2. IsFiniteSet(Ring)  BY <1>1, FS_Interval DEF Ring
<1>3. On(p, Window(from)) \subseteq Ring  BY DEF On, Window
<1>4. IsFiniteSet(On(p, Window(from)))  BY <1>2, <1>3, FS_Subset
<1> QED  BY <1>4, FS_CardinalityType

\* A window has N entries.
LEMMA WindowSize ==
  ASSUME NEW from \in Ring, NEW p
  PROVE  Cardinality(On(p, Window(from))) \in 0..N
<1>1. N \in Nat \ {0}  BY SpkModemAssumption
<1> DEFINE A == from..(IF from < N THEN from + N - 1 ELSE 2 * N - 1)
           B == 0..(from - N - 1)
<1>2. Window(from) \subseteq A \cup B  BY <1>1 DEF Window, Ring
<1>3. IsFiniteSet(A) /\ Cardinality(A) = IF from < N THEN N ELSE 2 * N - from
  BY <1>1, FS_Interval DEF Ring
<1>4. IsFiniteSet(B) /\ Cardinality(B) = IF from < N THEN 0 ELSE from - N
  BY <1>1, FS_Interval DEF Ring
<1>5. A \cap B = {}  BY <1>1 DEF Ring
<1>6. IsFiniteSet(A \cup B) /\ Cardinality(A \cup B) = N
  <2>1. IsFiniteSet(A \cup B)  BY <1>3, <1>4, FS_Union
  <2>2. Cardinality(A \cup B) = Cardinality(A) + Cardinality(B) - Cardinality({})
    <3> HIDE DEF A, B
    <3> QED  BY <1>3, <1>4, <1>5, FS_Union
  <2> HIDE DEF A, B
  <2> QED  BY <1>1, <1>3, <1>4, <2>1, <2>2, FS_EmptySet DEF Ring
<1>7. On(p, Window(from)) \subseteq A \cup B  BY <1>2 DEF On
<1>8. Cardinality(On(p, Window(from))) <= N
  BY <1>6, <1>7, FS_Subset
<1> QED  BY <1>1, <1>8, WindowFinite

\* Both windows move along by one: the data window loses ringpos and gains
\* sep_pos, the separator window the other way round.
LEMMA WindowsMove ==
  ASSUME RingType, Apart
  PROVE  /\ ringpos \in Window(ringpos) /\ sep_pos \in Window(sep_pos)
         /\ ringpos \notin Window(sep_pos) /\ sep_pos \notin Window(ringpos)
         /\ Window(Advance(ringpos)) = (Window(ringpos) \ {ringpos}) \cup {sep_pos}
         /\ Window(Advance(sep_pos)) = (Window(sep_pos) \ {sep_pos}) \cup {ringpos}
         /\ Advance(ringpos) \in Ring /\ Advance(sep_pos) \in Ring
         /\ Advance(sep_pos) = IF Advance(ringpos) < N THEN Advance(ringpos) + N
                                                      ELSE Advance(ringpos) - N
<1>1. N \in Nat \ {0}  BY SpkModemAssumption
<1>2. ringpos \in 0..(2 * N - 1) /\ sep_pos \in 0..(2 * N - 1)  BY DEF RingType, Ring
<1>3. sep_pos = IF ringpos < N THEN ringpos + N ELSE ringpos - N  BY DEF Apart
<1>4. Window(Advance(ringpos)) = (Window(ringpos) \ {ringpos}) \cup {sep_pos}
  BY <1>1, <1>2, <1>3 DEF Window, Advance, Ring
<1>5. Window(Advance(sep_pos)) = (Window(sep_pos) \ {sep_pos}) \cup {ringpos}
  BY <1>1, <1>2, <1>3 DEF Window, Advance, Ring
<1> QED  BY <1>1, <1>2, <1>3, <1>4, <1>5 DEF Window, Advance, Ring

\* The pulses of a window that loses the entry a and gains b.
LEMMA PulsesMove ==
  ASSUME NEW w, NEW a, NEW b, NEW p, NEW q,
         IsFiniteSet(On(p, w)), a \in w, b \notin w,
         p[a] \in {0, 1}, q[b] \in {0, 1},
         \A k \in w \ {a} : q[k] = p[k]
  PROVE  Cardinality(On(q, (w \ {a}) \cup {b})) = Cardinality(On(p, w)) - p[a] + q[b]
<1> DEFINE S == On(p, w) \ {a}
<1>1. IsFiniteSet(S) /\ Cardinality(S) = Cardinality(On(p, w)) - p[a]
  <2>1. a \in On(p, w) <=> p[a] = 1  BY DEF On
  <2>2. Cardinality(On(p, w)) \in Nat  BY FS_CardinalityType
  <2> QED  BY <2>1, <2>2, FS_RemoveElement
<1>2. b \notin S  BY DEF On
<1>3. CASE q[b] = 1
  <2>1. On(q, (w \ {a}) \cup {b}) = S \cup {b}  BY <1>3 DEF On
  <2>2. Cardinality(S \cup {b}) = Cardinality(S) + 1  BY <1>1, <1>2, FS_AddElement
  <2> QED  BY <1>1, <1>3, <2>1, <2>2
<1>4. CASE q[b] = 0
  <2>1. On(q, (w \ {a}) \cup {b}) = S  BY <1>4 DEF On
  <2>2. Cardinality(On(p, w)) \in Nat  BY FS_CardinalityType
  <2> HIDE DEF S
  <2> QED  BY <1>1, <1>4, <2>1, <2>2
<1> QED  BY <1>3, <1>4

LEMMA NewPulse ==
  ASSUME NEW sample
  PROVE  new_pulse(sample) \in {0, 1}
  BY DEF new_pulse

-----------------------------------------------------------------------------
(* The invariant. *)

LEMMA ModemInvInit == ModemInit => ModemInv
<1> SUFFICES ASSUME ModemInit PROVE ModemInv  OBVIOUS
<1> USE SpkModemAssumption
<1>1. RingType  BY DEF ModemInit, RingType, Ring, N
<1>2. Apart  BY DEF ModemInit, Apart, N
<1>3. WindowSums
  <2>1. On(pulse, Window(ringpos)) = {} /\ On(pulse, Window(sep_pos)) = {}
    BY DEF ModemInit, On, Window
  <2>2. Pulses(Window(ringpos)) = 0 /\ Pulses(Window(sep_pos)) = 0
    BY <2>1, FS_EmptySet DEF Pulses, On
  <2> QED  BY <2>2 DEF ModemInit, WindowSums
<1>4. CharType  BY DEF ModemInit, CharType
<1>5. Calibrated  BY DEF ModemInit, Calibrated
<1>6. Learnt  BY DEF ModemInit, Learnt
<1> QED  BY <1>1, <1>2, <1>3, <1>4, <1>5, <1>6 DEF ModemInv

\* The counts stay those of the windows, sample by sample.
LEMMA WindowSumsStep ==
  ASSUME RingType, Apart, WindowSums, NEW sample \in Samples, decode_pulse(sample)
  PROVE  WindowSums'
<1> DEFINE new == new_pulse(sample)
<1>1. new \in {0, 1}  BY NewPulse
<1>2. ringpos' = Advance(ringpos) /\ sep_pos' = Advance(sep_pos)  BY DEF decode_pulse
<1>3. pulse \in [Ring -> {0, 1}] /\ ringpos \in Ring /\ sep_pos \in Ring  BY DEF RingType
<1>4. /\ pulse'[ringpos] = new
      /\ \A k \in Ring \ {ringpos} : pulse'[k] = pulse[k]
  BY <1>3 DEF decode_pulse
<1>5. sep_pos # ringpos
  BY WindowsMove
<1>6. Window(ringpos) \subseteq Ring /\ Window(sep_pos) \subseteq Ring  BY DEF Window
<1>7. Pulses(Window(ringpos))' = Pulses(Window(ringpos)) - pulse[ringpos] + pulse[sep_pos]
  <2>1. Cardinality(On(pulse', (Window(ringpos) \ {ringpos}) \cup {sep_pos}))
          = Cardinality(On(pulse, Window(ringpos))) - pulse[ringpos] + pulse'[sep_pos]
    BY <1>3, <1>4, <1>5, <1>6, WindowsMove, WindowFinite, PulsesMove
  <2>2. pulse'[sep_pos] = pulse[sep_pos]  BY <1>3, <1>4, <1>5
  <2>3. Pulses(Window(ringpos))' = Cardinality(On(pulse', Window(Advance(ringpos))))
    BY <1>2 DEF Pulses, On, Window
  <2> QED  BY <2>1, <2>2, <2>3, WindowsMove DEF Pulses, On
<1>8. Pulses(Window(sep_pos))' = Pulses(Window(sep_pos)) - pulse[sep_pos] + new
  <2>1. Cardinality(On(pulse', (Window(sep_pos) \ {sep_pos}) \cup {ringpos}))
          = Cardinality(On(pulse, Window(sep_pos))) - pulse[sep_pos] + pulse'[ringpos]
    BY <1>1, <1>3, <1>4, <1>5, <1>6, WindowsMove, WindowFinite, PulsesMove
  <2>3. Pulses(Window(sep_pos))' = Cardinality(On(pulse', Window(Advance(sep_pos))))
    BY <1>2 DEF Pulses, On, Window
  <2> QED  BY <1>4, <2>1, <2>3, WindowsMove DEF Pulses, On
<1> QED  BY <1>7, <1>8 DEF WindowSums, decode_pulse, data_window, separator_window

\* Nothing else touches the ring or the counts.
LEMMA WindowSumsSame ==
  ASSUME WindowSums, UNCHANGED ringVars
  PROVE  WindowSums'
  BY DEF WindowSums, ringVars, Pulses, Window

LEMMA CountsInFrame ==
  ASSUME ModemInv
  PROVE  freq_data \in 0..N /\ freq_separator \in 0..N
  BY WindowSize DEF ModemInv, RingType, WindowSums, Pulses, On

LEMMA DivBounds ==
  ASSUME NEW c \in Nat \ {0}, NEW x \in Int, NEW lo \in Int, NEW hi \in Int,
         c * lo <= x, x <= c * hi
  PROVE  lo <= x \div c /\ x \div c <= hi
<1>1. x = c * (x \div c) + (x % c) /\ 0 <= x % c /\ x % c < c /\ x \div c \in Int  BY Z3
<1>2. lo <= x \div c
  <2> SUFFICES ASSUME (x \div c) + 1 <= lo PROVE FALSE  BY <1>1
  <2>1. c * ((x \div c) + 1) <= c * lo  BY <1>1
  <2> QED  BY <1>1, <2>1
<1>3. x \div c <= hi
  <2> SUFFICES ASSUME hi + 1 <= x \div c PROVE FALSE  BY <1>1
  <2>1. c * (hi + 1) <= c * (x \div c)  BY <1>1
  <2> QED  BY <1>1, <2>1
<1> QED  BY <1>2, <1>3

-----------------------------------------------------------------------------
(* The steps of end_frame. *)

\* What calibration does to the range and its accumulators.
LEMMA CalibratedStep ==
  ASSUME ModemInv, select_separator_tone
  PROVE  /\ Calibrated'
         /\ Magnitude(sep_min' - sep_min) <= SEP_TOLERANCE_PULSES
<1> USE SpkModemAssumption
<1> DEFINE sum == sep_sum + freq_separator
           n   == sep_samples + 1
           Tol == SEP_TOLERANCE_PULSES
<1>1. /\ sep_sum \in Nat /\ sep_samples \in 0..(CalFrames - 1)
      /\ sep_min \in Int /\ sep_max = sep_min + 2 * Tol /\ sep_max \in Int
      /\ sep_samples * sep_min <= sep_sum /\ sep_sum <= sep_samples * sep_max
  BY DEF ModemInv, Calibrated
<1>2. freq_separator \in Nat  BY CountsInFrame DEF N
<1>3. CASE ~is_valid_signal(sep_min, sep_max)
  BY <1>1, <1>3 DEF select_separator_tone, sepVars, Calibrated, Magnitude
<1>4. ASSUME is_valid_signal(sep_min, sep_max)
      PROVE  n * sep_min <= sum /\ sum <= n * sep_max
  <2>1. sep_min <= freq_separator /\ freq_separator <= sep_max
    BY <1>1, <1>2, <1>4 DEF is_valid_signal
  <2>2. n * sep_min = sep_samples * sep_min + sep_min  BY <1>1
  <2>3. n * sep_max = sep_samples * sep_max + sep_max  BY <1>1
  <2>4. sep_samples * sep_min \in Int /\ sep_samples * sep_max \in Int  BY <1>1
  <2> QED  BY <1>1, <1>2, <2>1, <2>2, <2>3, <2>4
<1>5. CASE is_valid_signal(sep_min, sep_max) /\ n # CalFrames
  <2>1. /\ sep_sum' = sum /\ sep_samples' = n
        /\ sep_min' = sep_min /\ sep_max' = sep_max
    BY <1>5 DEF select_separator_tone
  <2> QED  BY <1>1, <1>2, <1>4, <1>5, <2>1 DEF Calibrated, Magnitude
<1>6. CASE is_valid_signal(sep_min, sep_max) /\ n = CalFrames
  <2> DEFINE avg == sum \div CalFrames
  <2>1. /\ sep_min' = avg - Tol /\ sep_max' = avg + Tol
        /\ sep_sum' = 0 /\ sep_samples' = 0
    BY <1>6 DEF select_separator_tone, reset_accumulators
  <2>2. sum \in Int /\ avg \in Int  BY <1>1, <1>2
  <2>3. sep_min <= avg /\ avg <= sep_max
    BY <1>1, <1>4, <1>6, <2>2, DivBounds
  <2> HIDE DEF avg
  <2>4. Magnitude(sep_min' - sep_min) <= Tol
    BY <1>1, <2>1, <2>2, <2>3 DEF Magnitude
  <2>5. Calibrated'
    BY <2>1, <2>2 DEF Calibrated
  <2> QED  BY <2>4, <2>5
<1> QED  BY <1>3, <1>5, <1>6

\* What tone detection does to the threshold.
LEMMA LearntStep ==
  ASSUME ModemInv, detect_tone
  PROVE  Learnt'
<1> USE SpkModemAssumption
<1>1. /\ freq_min \in Nat /\ freq_max \in Nat /\ freq_threshold \in Nat
      /\ learn_frames \in 0..LEARN_FRAMES
      /\ freq_threshold # FREQ_DATA_THRESHOLD =>
           learn_frames = LEARN_FRAMES /\ freq_min < freq_threshold /\ freq_threshold < freq_max
  BY DEF ModemInv, Learnt
<1>2. low_tone \in Nat  BY CountsInFrame DEF low_tone, N
<1>3. CASE learn_frames >= LEARN_FRAMES
  BY <1>1, <1>3 DEF detect_tone, toneVars, Learnt
<1>4. CASE learn_frames < LEARN_FRAMES
  <2>1. freq_threshold = FREQ_DATA_THRESHOLD  BY <1>1, <1>4
  <2>2. learn_frames' = learn_frames + 1  BY <1>1, <1>4 DEF detect_tone
  <2>3. CASE silent_signal
    BY <1>1, <1>4, <2>1, <2>2, <2>3 DEF detect_tone, Learnt
  <2>4. CASE ~silent_signal
    <3>1. freq_min' \in Nat /\ freq_max' \in Nat
      BY <1>1, <1>2, <1>4, <2>4 DEF detect_tone, select_low_tone
    <3>2. CASE learn_frames' = LEARN_FRAMES /\ two_tones
      <4>1. freq_threshold' = (freq_min' + freq_max') \div 2
        BY <1>1, <1>4, <2>4, <3>2 DEF detect_tone
      <4>2. freq_max' - freq_min' >= 2  BY <3>2 DEF two_tones
      <4>3. freq_threshold' \in Nat /\ freq_min' < freq_threshold' /\ freq_threshold' < freq_max'
        <5> DEFINE lo == freq_min'
                   hi == freq_max'
        <5>1. lo \in Nat /\ hi \in Nat /\ hi - lo >= 2  BY <3>1, <4>2
        <5> HIDE DEF lo, hi
        <5>2. (lo + hi) \div 2 \in Nat /\ lo < (lo + hi) \div 2 /\ (lo + hi) \div 2 < hi
          BY <5>1
        <5> QED  BY <4>1, <5>2 DEF lo, hi
      <4> QED  BY <3>1, <3>2, <4>3 DEF Learnt
    <3>3. CASE ~(learn_frames' = LEARN_FRAMES /\ two_tones)
      <4>1. freq_threshold' = FREQ_DATA_THRESHOLD
        BY <1>1, <1>4, <2>1, <2>4, <3>3 DEF detect_tone
      <4> QED  BY <1>1, <1>4, <2>2, <3>1, <4>1 DEF Learnt
    <3> QED  BY <3>2, <3>3
  <2> QED  BY <2>3, <2>4
<1> QED  BY <1>1, <1>3, <1>4

LEMMA CharTypeStep ==
  ASSUME CharType, set_ascii_bit
  PROVE  CharType'
<1> USE SpkModemAssumption
<1>1. CASE UNCHANGED charVars  BY <1>1 DEF CharType, charVars
<1> DEFINE new == IF freq_data < freq_threshold THEN with_bit ELSE ascii
<1>2. new \subseteq ascii_bit..(Bits - 1)  BY DEF CharType, with_bit
<1>3. CASE ascii_bit > 0 /\ ascii' = new /\ ascii_bit' = ascii_bit - 1 /\ UNCHANGED out
  BY <1>2, <1>3 DEF CharType
<1>4. CASE ~(ascii_bit > 0) /\ out' = <<new>> /\ reset_char
  <2>1. new \in SUBSET (0..(Bits - 1))  BY <1>2 DEF CharType
  <2> QED  BY <1>4, <2>1 DEF CharType, reset_char
<1> QED  BY <1>1, <1>3, <1>4 DEF set_ascii_bit

-----------------------------------------------------------------------------
LEMMA ModemInvStep == ModemInv /\ [ModemNext]_modemVars => ModemInv'
<1> SUFFICES ASSUME ModemInv, [ModemNext]_modemVars PROVE ModemInv'  OBVIOUS
<1> USE SpkModemAssumption
<1>1. CASE begin_frame
  <2>1. RingType' /\ Apart'  BY <1>1 DEF begin_frame, ModemInv, RingType, Apart, ringVars, N
  <2>2. WindowSums'  BY <1>1, WindowSumsSame DEF ModemInv, begin_frame
  <2>3. CharType'
    <3>1. CharType /\ out' = out  BY <1>1 DEF ModemInv, begin_frame
    <3>2. CASE reset_char  BY <3>1, <3>2 DEF CharType, reset_char
    <3>3. CASE UNCHANGED <<ascii, ascii_bit>>  BY <3>1, <3>3 DEF CharType
    <3> QED  BY <1>1, <3>2, <3>3 DEF begin_frame
  <2>4. Calibrated' /\ Learnt'
    BY <1>1 DEF begin_frame, ModemInv, Calibrated, Learnt, sepVars, toneVars
  <2> QED  BY <2>1, <2>2, <2>3, <2>4 DEF ModemInv
<1>2. ASSUME NEW sample \in Samples, decode_pulse(sample)  PROVE ModemInv'
  <2>1. RingType' /\ Apart'
    BY <1>2, NewPulse, WindowsMove DEF decode_pulse, ModemInv, RingType, Apart, N
  <2>2. WindowSums'  BY <1>2, WindowSumsStep DEF ModemInv
  <2>3. CharType' /\ Calibrated' /\ Learnt'
    BY <1>2 DEF decode_pulse, ModemInv, CharType, Calibrated, Learnt, charVars, sepVars, toneVars
  <2> QED  BY <2>1, <2>2, <2>3 DEF ModemInv
<1>3. CASE end_frame
  <2>1. RingType' /\ Apart'  BY <1>3 DEF end_frame, ModemInv, RingType, Apart, ringVars
  <2>2. WindowSums'  BY <1>3, WindowSumsSame DEF ModemInv, end_frame
  <2>3. CharType'  BY <1>3, CharTypeStep DEF ModemInv, end_frame
  <2>4. Calibrated' /\ Learnt'  BY <1>3, CalibratedStep, LearntStep DEF end_frame
  <2> QED  BY <2>1, <2>2, <2>3, <2>4 DEF ModemInv
<1>4. CASE UNCHANGED modemVars
  <2>1. WindowSums'  BY <1>4, WindowSumsSame DEF ModemInv, modemVars, ringVars
  <2>2. RingType' /\ Apart' /\ CharType' /\ Calibrated' /\ Learnt'
    BY <1>4 DEF modemVars, ModemInv, RingType, Apart, CharType, Calibrated, Learnt
  <2> QED  BY <2>1, <2>2 DEF ModemInv
<1> QED  BY <1>1, <1>2, <1>3, <1>4 DEF ModemNext

\* The inductive invariant.
THEOREM ModemInvCorrect == ModemSpec => []ModemInv
  BY ModemInvInit, ModemInvStep, PTL DEF ModemSpec

\* Every variable keeps its type; in particular the counts, which the code
\* keeps by adding and subtracting, never leave 0..N.
THEOREM ModemTypeCorrect == ModemSpec => []ModemTypeOK
<1>1. ModemInv => ModemTypeOK
  <2> SUFFICES ASSUME ModemInv PROVE ModemTypeOK  OBVIOUS
  <2>1. ascii \subseteq 0..(Bits - 1)  BY DEF ModemInv, CharType
  <2> QED  BY <2>1, CountsInFrame, SpkModemAssumption
           DEF ModemInv, RingType, CharType, Calibrated, Learnt, ModemTypeOK
<1> QED  BY <1>1, ModemInvCorrect, PTL

\* The counts that decode_pulse keeps up to date are those of the windows.
THEOREM WindowSumsCorrect == ModemSpec => []WindowSums
<1>1. ModemInv => WindowSums  BY DEF ModemInv
<1> QED  BY <1>1, ModemInvCorrect, PTL

\* A learnt threshold lies between the tones that were heard (detect_tone).
THEOREM ThresholdBetweenCorrect == ModemSpec => []ThresholdBetween
<1>1. ModemInv => ThresholdBetween  BY DEF ModemInv, Learnt, ThresholdBetween
<1> QED  BY <1>1, ModemInvCorrect, PTL

\* A calibration moves the range by no more than half its width
\* (select_separator_tone).
THEOREM CalibrationFollowsCorrect == ModemSpec => CalibrationFollows
<1> DEFINE Follows == /\ sep_max' - sep_min' = 2 * SEP_TOLERANCE_PULSES
                      /\ Magnitude(sep_min' - sep_min) <= SEP_TOLERANCE_PULSES
<1>1. ModemInv /\ ModemInv' /\ [ModemNext]_modemVars => [Follows]_modemVars
  <2> SUFFICES ASSUME ModemInv, ModemInv', ModemNext PROVE Follows
    OBVIOUS
  <2>1. sep_min \in Int /\ sep_min' \in Int /\ SEP_TOLERANCE_PULSES \in Nat
    BY SpkModemAssumption DEF ModemInv, Calibrated
  <2>2. sep_max' - sep_min' = 2 * SEP_TOLERANCE_PULSES
    <3>1. sep_max' = sep_min' + 2 * SEP_TOLERANCE_PULSES  BY DEF ModemInv, Calibrated
    <3> DEFINE lo == sep_min'
    <3>2. lo \in Int  BY <2>1
    <3> HIDE DEF lo
    <3>3. (lo + 2 * SEP_TOLERANCE_PULSES) - lo = 2 * SEP_TOLERANCE_PULSES  BY <2>1, <3>2
    <3> QED  BY <3>1, <3>3 DEF lo
  <2>3. CASE end_frame  BY <2>2, <2>3, CalibratedStep DEF end_frame
  <2>4. CASE UNCHANGED sepVars
    BY <2>1, <2>2, <2>4 DEF sepVars, Magnitude
  <2> QED  BY <2>3, <2>4 DEF ModemNext, begin_frame, decode_pulse
<1> QED  BY <1>1, ModemInvCorrect, PTL DEF ModemSpec, CalibrationFollows

-----------------------------------------------------------------------------
(* Receiver. *)

LEMMA ModemRefinementInit == ModemInit => R!Init
  BY SpkModemAssumption DEF ModemInit, R!Init

\* A sequence of bits with one more.
LEMMA AppendBit ==
  ASSUME NEW n \in Nat, NEW f, NEW b,
         \A i \in 1..n : f[i] \in {0, 1}, DOMAIN f = 1..n, f = [i \in 1..n |-> f[i]],
         b \in {0, 1}
  PROVE  /\ f \in Seq({0, 1}) /\ Len(f) = n
         /\ Append(f, b) = [i \in 1..(n + 1) |-> IF i = n + 1 THEN b ELSE f[i]]
<1>1. f \in [1..n -> {0, 1}]  OBVIOUS
<1>2. f \in Seq({0, 1}) /\ Len(f) = n  BY <1>1
<1> QED  BY <1>2

\* A bit arrives.
LEMMA BitStep ==
  ASSUME ModemInv, set_ascii_bit
  PROVE  R!Next \/ UNCHANGED R!vars
<1> USE SpkModemAssumption
<1> DEFINE char == IF freq_data < freq_threshold THEN with_bit ELSE ascii
           b    == Bit(ascii_bit, char)
           n    == Bits - 1 - ascii_bit
           seq  == [i \in 1..n |-> Bit(Bits - i, ascii)]
           full == [i \in 1..(n + 1) |-> Bit(Bits - i, char)]
           prt  == IF out = <<>> THEN <<>> ELSE [i \in 1..Bits |-> Bit(Bits - i, out[1])]
<1>1. /\ ascii_bit \in 0..(Bits - 1) /\ ascii \subseteq (ascii_bit + 1)..(Bits - 1)
      /\ n \in Nat
  BY DEF ModemInv, CharType
<1>2. CASE UNCHANGED charVars  BY <1>2 DEF charVars, R!vars
<1>3. b \in {0, 1}  BY DEF Bit
<1>4. Append(seq, b) = full /\ Len(seq) = n
  <2>1. /\ DOMAIN seq = 1..n /\ seq = [i \in 1..n |-> seq[i]]
        /\ \A i \in 1..n : seq[i] \in {0, 1}
    BY DEF Bit
  <2>2. /\ Append(seq, b) = [i \in 1..(n + 1) |-> IF i = n + 1 THEN b ELSE seq[i]]
        /\ Len(seq) = n
    <3> HIDE DEF seq, b, n
    <3> QED  BY SMTT(30), <1>1, <1>3, <2>1, AppendBit
  <2>3. ASSUME NEW i \in 1..(n + 1)
        PROVE  (IF i = n + 1 THEN b ELSE seq[i]) = Bit(Bits - i, char)
    <3>1. CASE i = n + 1  BY <1>1, <3>1
    <3>2. CASE i # n + 1
      <4>1. i \in 1..n /\ Bits - i # ascii_bit  BY <1>1, <3>2
      <4> QED  BY <3>2, <4>1 DEF with_bit, Bit
    <3> QED  BY <3>1, <3>2
  <2> HIDE DEF b, seq, n, char
  <2> QED  BY <2>2, <2>3
<1>5. CASE ascii_bit > 0 /\ ascii' = char /\ ascii_bit' = ascii_bit - 1 /\ UNCHANGED out
  <2>1. [i \in 1..(Bits - 1 - ascii_bit) |-> Bit(Bits - i, ascii)]' = full
    <3>1. Bits - 1 - ascii_bit' = n + 1  BY <1>1, <1>5
    <3>2. ascii' = char  BY <1>5
    <3> HIDE DEF char, n
    <3> QED  BY <3>1, <3>2 DEF Bit
  <2>2. n < Bits - 1  BY <1>1, <1>5
  <2>3. R!Receive(b)
    <3> HIDE DEF full, b
    <3> QED  BY <1>4, <1>5, <2>1, <2>2 DEF R!Receive
  <2> QED  BY <1>3, <2>3 DEF R!Next
<1>6. CASE ~(ascii_bit > 0) /\ out' = <<char>> /\ reset_char
  <2>1. ascii_bit = 0 /\ n = Bits - 1 /\ n + 1 = Bits  BY <1>1, <1>6
  <2>2. [i \in 1..(Bits - 1 - ascii_bit) |-> Bit(Bits - i, ascii)]' = <<>>
    BY <1>6 DEF reset_char
  <2>3. (IF out = <<>> THEN <<>> ELSE [i \in 1..Bits |-> Bit(Bits - i, out[1])])' = full
    <3>1. out' # <<>> /\ out'[1] = char  BY <1>6
    <3> HIDE DEF char, n
    <3> QED  BY <2>1, <3>1 DEF Bit
  <2>4. R!Complete(b)
    <3> HIDE DEF full, b
    <3> QED  BY <1>4, <2>1, <2>2, <2>3 DEF R!Complete
  <2> QED  BY <1>3, <2>4 DEF R!Next
<1> QED  BY <1>2, <1>5, <1>6 DEF set_ascii_bit

LEMMA ModemRefinementStep ==
  ASSUME ModemInv, [ModemNext]_modemVars
  PROVE  R!Next \/ UNCHANGED R!vars
<1> USE SpkModemAssumption
<1>1. CASE UNCHANGED charVars  BY <1>1 DEF charVars, R!vars
<1>2. CASE begin_frame
  <2>1. CASE UNCHANGED <<ascii, ascii_bit>>  BY <1>2, <2>1 DEF begin_frame, R!vars
  <2>2. CASE reset_char
    <3>1. [i \in 1..(Bits - 1 - ascii_bit) |-> Bit(Bits - i, ascii)]' = <<>>
      BY <2>2 DEF reset_char
    <3>2. UNCHANGED out  BY <1>2 DEF begin_frame
    <3>3. R!Drop  BY <3>1, <3>2 DEF R!Drop
    <3> QED  BY <3>3 DEF R!Next
  <2> QED  BY <1>2, <2>1, <2>2 DEF begin_frame
<1>3. CASE end_frame  BY <1>3, BitStep DEF end_frame
<1> QED  BY <1>1, <1>2, <1>3 DEF ModemNext, decode_pulse, modemVars, charVars

\* spkmodem-decode implements Receiver: characters are made of successive bits.
THEOREM ModemRefinement == ModemSpec => ImplementsReceiver
<1>1. ModemInit => R!Init  BY ModemRefinementInit
<1>2. ModemInv /\ [ModemNext]_modemVars => [R!Next]_(R!vars)  BY ModemRefinementStep
<1> QED  BY <1>1, <1>2, ModemInvCorrect, PTL DEF ModemSpec, R!Spec, ImplementsReceiver

-----------------------------------------------------------------------------
(***************************************************************************)
(* dell_flash_unlock.  A printed instruction rests on what an earlier step *)
(* of the same run found, and has to hold until the user acts on it.       *)
(* Steps is what holds between the steps of a run, Between what holds      *)
(* between two runs.                                                       *)
(***************************************************************************)

\* A command that reached the EC is being done or done; locks are looked at
\* only under the override; the end of main is reached with a chip that can
\* be written as far as the lock bit goes.
Steps ==
    /\ at # "ended" => told = "none"
    /\ at \in {"bios", "smi_off", "smi"} => strap
    /\ at = "wait_ec" => polled < Polls
    /\ at = "wait_ec" /\ Forwarded => armed \/ ec # Idle
    /\ at = "smi" => SetBioswe

\* SMIs are off only where they can be turned on again, and are on whenever
\* the next thing to do is to turn the machine off; the EC is never busy for
\* no time at all.
Between ==
    /\ ec # 0
    /\ ~smi => ~mc.smilock
    /\ at = "ended" /\ told = "flash" => smi

UnlockInv == UnlockTypeOK /\ Steps /\ Between /\ ToldTrue

----------------------------------------------------------------------------
LEMMA DoneType == ASSUME NEW left \in Nat
                  PROVE  /\ Done(left) \in Nat \cup {Idle}
                         /\ Done(left) # 0
                         /\ left # 0 => Done(left) = left /\ Done(left) # Idle
  BY DEF Done, Idle

LEMMA MachineType == ASSUME NEW m \in Machine
                     PROVE  /\ m.ble \in BOOLEAN /\ m.bwp \in BOOLEAN
                            /\ m.smilock \in BOOLEAN /\ m.busy \in Nat
                            /\ m.dec \in [Ranges -> [on : BOOLEAN, ec : BOOLEAN]]
  BY DEF Machine

LEMMA UnlockInvInit == UnlockInit => UnlockInv
<1> SUFFICES ASSUME UnlockInit PROVE UnlockInv  OBVIOUS
<1>1. mc \in Machine  BY ParametersAssumption DEF UnlockInit
<1>2. dec \in [Ranges -> [on : BOOLEAN, ec : BOOLEAN]]
  BY <1>1, MachineType DEF UnlockInit
<1>3. 0 \in 0 .. Polls /\ Detours \in 0 .. Detours  BY ParametersAssumption
<1>4. UnlockTypeOK
  BY <1>1, <1>2, <1>3 DEF UnlockInit, UnlockTypeOK, Instructions
<1>5. Steps /\ Between /\ ToldTrue
  BY DEF UnlockInit, Steps, Between, ToldTrue, Idle
<1> QED  BY <1>4, <1>5 DEF UnlockInv

\* The EC's clock, whatever else happens.
LEMMA TickIInv == ASSUME UnlockInv, Tick
                  PROVE  /\ ec' \in Nat \cup {Idle} /\ ec' # 0
                         /\ armed' \in BOOLEAN
                         /\ armed => armed'
                         /\ ec # Idle => armed' \/ ec' # Idle
                         /\ ec = Idle => ec' = Idle
<1>1. CASE ec = Idle  BY <1>1 DEF UnlockInv, UnlockTypeOK, Tick, Idle
<1>2. CASE ec # Idle
  <2>1. ec \in Nat /\ ec # 0  BY <1>2 DEF UnlockInv, UnlockTypeOK, Between
  <2>2. ec - 1 \in Nat /\ (ec # 1 => ec - 1 # 0)  BY <2>1
  <2>3. ec' = Done(ec - 1)  BY <1>2 DEF Tick
  <2> QED  BY <1>2, <2>1, <2>2, <2>3, DoneType DEF UnlockInv, UnlockTypeOK, Tick
<1> QED  BY <1>1, <1>2

----------------------------------------------------------------------------
(* The machine and its user                                                *)

LEMMA BootedIInv == ASSUME UnlockInv, Booted, strap' \in BOOLEAN, armed' \in BOOLEAN,
                           told' = "none", detours' \in 0 .. Detours
                    PROVE  UnlockInv'
<1>1. mc \in Machine /\ mc' = mc  BY DEF UnlockInv, UnlockTypeOK, Booted
<1>2. dec' \in [Ranges -> [on : BOOLEAN, ec : BOOLEAN]]
  BY <1>1, MachineType DEF Booted
<1>3. 0 \in 0 .. Polls  BY ParametersAssumption
<1>4. UnlockTypeOK'
  BY <1>1, <1>2, <1>3 DEF UnlockInv, UnlockTypeOK, Booted, Instructions
<1>5. Steps' /\ Between' /\ ToldTrue'
  BY DEF Booted, Steps, Between, ToldTrue, Idle
<1> QED  BY <1>4, <1>5 DEF UnlockInv

LEMMA FlashIInv == ASSUME UnlockInv, Flash, detours' \in 0 .. Detours PROVE UnlockInv'
<1>1. SetBioswe \in BOOLEAN /\ Writable \in BOOLEAN
  BY DEF SetBioswe, Writable, BLE, UnlockInv, UnlockTypeOK
<1>2. UnlockTypeOK'  BY <1>1 DEF UnlockInv, UnlockTypeOK, Flash
<1>3. SetBioswe => SetBioswe'  BY DEF Flash, SetBioswe, BLE
<1>4. Steps' /\ Between'  BY DEF UnlockInv, Flash, Steps, Between
<1>5. ToldTrue'
  BY <1>3 DEF UnlockInv, Flash, ToldTrue, Writable
<1> QED  BY <1>2, <1>4, <1>5 DEF UnlockInv

LEMMA StartIInv == ASSUME UnlockInv, Start, detours' \in 0 .. Detours PROVE UnlockInv'
<1>1. UnlockTypeOK'  BY DEF UnlockInv, UnlockTypeOK, Start, hw, Instructions
<1>2. Steps' /\ Between' /\ ToldTrue'
  BY DEF UnlockInv, Start, hw, Steps, Between, ToldTrue
<1> QED  BY <1>1, <1>2 DEF UnlockInv

LEMMA KillIInv == ASSUME UnlockInv, UnlockKill, detours' \in 0 .. Detours PROVE UnlockInv'
<1>1. UnlockTypeOK'  BY DEF UnlockInv, UnlockTypeOK, UnlockKill, UnlockExit, hw, Instructions
<1>2. Steps' /\ Between' /\ ToldTrue'
  BY DEF UnlockInv, UnlockKill, UnlockExit, hw, Steps, Between, ToldTrue
<1> QED  BY <1>1, <1>2 DEF UnlockInv

LEMMA OffIInv == ASSUME UnlockInv, Off, at = "ended", told \in {"flash", "power off"},
                        detours' \in 0 .. Detours
                 PROVE  UnlockInv'
<1>1. UnlockTypeOK'  BY DEF UnlockInv, UnlockTypeOK, Off, hw, Instructions
<1>2. Steps' /\ Between' /\ ToldTrue'
  BY DEF UnlockInv, Off, hw, Steps, Between, ToldTrue
<1> QED  BY <1>1, <1>2 DEF UnlockInv

LEMMA EcRunsIInv == ASSUME UnlockInv, EcRuns PROVE UnlockInv'
<1>1. Tick  BY DEF EcRuns
<1>2. UnlockTypeOK'  BY <1>1, TickIInv DEF UnlockInv, UnlockTypeOK, EcRuns
<1>3. Steps' /\ Between'
  BY <1>1, TickIInv DEF UnlockInv, EcRuns, Steps, Between, SetBioswe, BLE
<1>4. ToldTrue'
  BY <1>1, TickIInv DEF UnlockInv, EcRuns, ToldTrue, Writable, SetBioswe, BLE
<1> QED  BY <1>2, <1>3, <1>4 DEF UnlockInv

----------------------------------------------------------------------------
(* The program                                                             *)

LEMMA check_lpc_decodeIInv ==
  ASSUME UnlockInv, check_lpc_decode, UNCHANGED detours PROVE UnlockInv'
<1>1. dec' \in [Ranges -> [on : BOOLEAN, ec : BOOLEAN]]
  <2>1. dec \in [Ranges -> [on : BOOLEAN, ec : BOOLEAN]]
    BY DEF UnlockInv, UnlockTypeOK
  <2>2. CASE dec' = dec  BY <2>1, <2>2
  <2>3. CASE dec' = [dec EXCEPT ![LastFree] = [on |-> TRUE, ec |-> TRUE]]
    BY <2>1, <2>3
  <2> QED  BY <2>2, <2>3 DEF check_lpc_decode
<1>2. at' \in {"command", "ended"} /\ told' \in {"none", "failed"}
  BY DEF UnlockInv, Steps, check_lpc_decode, UnlockExit
<1>3. at' = "command" => told' = "none"
  BY DEF UnlockInv, Steps, check_lpc_decode, UnlockExit
<1>4. UNCHANGED <<mc, strap, armed, ec, smi, bioswe, polled, flashed>>
  BY DEF check_lpc_decode, UnlockExit
<1>5. UnlockTypeOK'  BY <1>1, <1>2, <1>4 DEF UnlockInv, UnlockTypeOK, Instructions
<1>6. Steps' /\ Between' /\ ToldTrue'
  BY <1>2, <1>3, <1>4 DEF UnlockInv, Steps, Between, ToldTrue
<1> QED  BY <1>5, <1>6 DEF UnlockInv

LEMMA ec_set_fdoIInv ==
  ASSUME UnlockInv, ec_set_fdo, UNCHANGED detours PROVE UnlockInv'
<1>1. mc.busy \in Nat  BY MachineType DEF UnlockInv, UnlockTypeOK
<1>2. /\ ec' \in Nat \cup {Idle} /\ ec' # 0 /\ armed' \in BOOLEAN
      /\ Forwarded => armed' \/ ec' # Idle
  BY <1>1, DoneType DEF UnlockInv, UnlockTypeOK, Between, ec_set_fdo
<1>3. UnlockTypeOK'
  BY <1>2, ParametersAssumption DEF UnlockInv, UnlockTypeOK, ec_set_fdo
<1>4. Forwarded' = Forwarded  BY DEF Forwarded, ec_set_fdo
<1>5. Steps' /\ Between' /\ ToldTrue'
  BY <1>2, <1>4, ParametersAssumption
  DEF UnlockInv, Steps, Between, ToldTrue, ec_set_fdo
<1> QED  BY <1>3, <1>5 DEF UnlockInv

LEMMA wait_ecIInv == ASSUME UnlockInv, wait_ec, UNCHANGED detours PROVE UnlockInv'
<1>1. Tick /\ at = "wait_ec"  BY DEF wait_ec
<1>2. Forwarded' = Forwarded  BY DEF Forwarded, wait_ec
<1>3. polled \in 0 .. Polls /\ polled < Polls /\ polled' = polled + 1
  BY <1>1 DEF UnlockInv, UnlockTypeOK, Steps, wait_ec
<1>4. polled' \in 0 .. Polls  BY <1>3, ParametersAssumption
<1>5. /\ UNCHANGED <<mc, flashed, strap, smi, bioswe, dec>>
      /\ \/ at' = "ended" /\ told' = "failed"
         \/ at' = "ended" /\ told' = "shut down" /\ ~Busy
         \/ at' = at /\ told' = told /\ polled' < Polls
  BY DEF wait_ec, UnlockExit
<1>6. told = "none"  BY <1>1 DEF UnlockInv, Steps
<1>7. at' = "ended" /\ told' = "shut down" => armed'
  BY <1>1, <1>5, <1>6, TickIInv DEF Busy, UnlockInv, Steps
<1>8. UnlockTypeOK'
  BY <1>1, <1>4, <1>5, TickIInv DEF UnlockInv, UnlockTypeOK, Instructions
<1>9. Steps' /\ Between'
  BY <1>1, <1>2, <1>5, <1>6, TickIInv DEF UnlockInv, Steps, Between
<1>10. ToldTrue'
  BY <1>1, <1>5, <1>6, <1>7 DEF ToldTrue
<1> QED  BY <1>8, <1>9, <1>10 DEF UnlockInv

LEMMA check_bios_write_enIInv ==
  ASSUME UnlockInv, check_bios_write_en, UNCHANGED detours PROVE UnlockInv'
<1>1. SetBioswe \in BOOLEAN  BY DEF SetBioswe, BLE, UnlockInv, UnlockTypeOK
<1>2. UNCHANGED <<mc, strap, armed, ec, smi, dec, polled, told, flashed>>
  BY DEF check_bios_write_en
<1>3. at' \in {"smi", "smi_off"} /\ bioswe' \in BOOLEAN
  BY <1>1 DEF check_bios_write_en, UnlockInv, UnlockTypeOK
<1>4. at' = "smi" => SetBioswe'
  <2>1. BLE' = BLE  BY <1>2 DEF BLE
  <2>2. CASE BLE \/ mc.bwp
    BY <2>2 DEF check_bios_write_en, SetBioswe
  <2>3. CASE ~(BLE \/ mc.bwp)
    BY <2>1, <2>3 DEF SetBioswe
  <2> QED  BY <2>2, <2>3
<1>5. strap /\ told = "none"  BY DEF check_bios_write_en, UnlockInv, Steps
<1>6. UnlockTypeOK'  BY <1>2, <1>3 DEF UnlockInv, UnlockTypeOK
<1>7. Steps' /\ Between' /\ ToldTrue'
  BY <1>2, <1>3, <1>4, <1>5 DEF UnlockInv, Steps, Between, ToldTrue
<1> QED  BY <1>6, <1>7 DEF UnlockInv

LEMMA disable_smiIInv ==
  ASSUME UnlockInv, disable_smi, UNCHANGED detours PROVE UnlockInv'
<1>1. /\ UNCHANGED <<mc, strap, armed, ec, bioswe, dec, polled, flashed>>
      /\ at' = "ended" /\ told' \in {"failed", "flash, rerun"}
      /\ told' = "flash, rerun" => ~smi'
      /\ smi' = (smi /\ mc.smilock)
  BY DEF disable_smi, UnlockExit
<1>2. mc.smilock \in BOOLEAN  BY MachineType DEF UnlockInv, UnlockTypeOK
<1>3. ~smi' => ~mc'.smilock  BY <1>1 DEF UnlockInv, Between
<1>4. strap  BY DEF disable_smi, UnlockInv, Steps
<1>5. told' = "flash, rerun" /\ ~mc'.bwp => Writable'
  BY <1>1, <1>4 DEF Writable, SetBioswe
<1>6. UnlockTypeOK'  BY <1>1, <1>2 DEF UnlockInv, UnlockTypeOK, Instructions
<1>7. Steps' /\ Between' /\ ToldTrue'
  BY <1>1, <1>3, <1>5 DEF UnlockInv, Steps, Between, ToldTrue
<1> QED  BY <1>6, <1>7 DEF UnlockInv

LEMMA enable_smiIInv ==
  ASSUME UnlockInv, enable_smi, UNCHANGED detours PROVE UnlockInv'
<1>1. /\ UNCHANGED <<mc, strap, armed, ec, bioswe, dec, polled, flashed>>
      /\ at' = "ended" /\ told' \in {"flash", "power off"}
      /\ told' = "flash" <=> smi
      /\ smi' = (smi \/ ~mc.smilock)
  BY DEF enable_smi, UnlockExit
<1>2. smi'
  BY <1>1 DEF UnlockInv, Between
<1>3. strap /\ SetBioswe  BY DEF enable_smi, UnlockInv, Steps
<1>4. told' = "flash" /\ ~mc'.bwp => Writable'
  BY <1>1, <1>2, <1>3 DEF Writable, SetBioswe, BLE
<1>5. UnlockTypeOK'  BY <1>1, <1>2 DEF UnlockInv, UnlockTypeOK, Instructions
<1>6. Steps' /\ Between' /\ ToldTrue'
  BY <1>1, <1>2, <1>4 DEF UnlockInv, Steps, Between, ToldTrue
<1> QED  BY <1>5, <1>6 DEF UnlockInv

----------------------------------------------------------------------------
LEMMA ProgramIInv == ASSUME UnlockInv, Program PROVE UnlockInv'
  BY check_lpc_decodeIInv, ec_set_fdoIInv, wait_ecIInv, check_bios_write_enIInv,
     disable_smiIInv, enable_smiIInv DEF Program

LEMMA PowerOnIInv ==
  ASSUME UnlockInv, PowerCycle \/ Reboot, detours' \in 0 .. Detours PROVE UnlockInv'
<1>1. Booted /\ told' = "none"  BY DEF PowerCycle, Reboot
<1>2. strap' \in BOOLEAN /\ armed' \in BOOLEAN
  BY DEF PowerCycle, Reboot, UnlockInv, UnlockTypeOK
<1> QED  BY <1>1, <1>2, BootedIInv

LEMMA FollowIInv == ASSUME UnlockInv, Follow PROVE UnlockInv'
<1>1. detours' \in 0 .. Detours /\ at = "ended"  BY DEF Follow, UnlockInv, UnlockTypeOK
<1>2. CASE Start  BY <1>1, <1>2, StartIInv
<1>3. CASE PowerCycle  BY <1>1, <1>3, PowerOnIInv
<1>4. CASE Flash  BY <1>1, <1>4, FlashIInv
<1>5. CASE told \in {"flash", "power off"} /\ Off  BY <1>1, <1>5, OffIInv
<1> QED  BY <1>2, <1>3, <1>4, <1>5 DEF Follow

LEMMA WanderIInv == ASSUME UnlockInv, Wander PROVE UnlockInv'
<1>1. detours' \in 0 .. Detours
  <2>1. detours \in 0 .. Detours /\ detours > 0 /\ detours' = detours - 1
    BY DEF Wander, UnlockInv, UnlockTypeOK
  <2> QED  BY <2>1, ParametersAssumption
<1>2. CASE PowerCycle \/ Reboot  BY <1>1, <1>2, PowerOnIInv
<1>3. CASE Flash  BY <1>1, <1>3, FlashIInv
<1>4. CASE Start  BY <1>1, <1>4, StartIInv
<1>5. CASE UnlockKill  BY <1>1, <1>5, KillIInv
<1> QED  BY <1>2, <1>3, <1>4, <1>5 DEF Wander

LEMMA UnlockInvNext == UnlockInv /\ [UnlockNext]_unlockVars => UnlockInv'
<1> SUFFICES ASSUME UnlockInv, [UnlockNext]_unlockVars PROVE UnlockInv'  OBVIOUS
<1>1. CASE Program  BY <1>1, ProgramIInv
<1>2. CASE Follow  BY <1>2, FollowIInv
<1>3. CASE Wander  BY <1>3, WanderIInv
<1>4. CASE EcRuns  BY <1>4, EcRunsIInv
<1>5. CASE UNCHANGED unlockVars
  BY ZenonT(30), <1>5 DEF unlockVars, UnlockInv, UnlockTypeOK, Steps, Between, ToldTrue, Forwarded,
              Writable, SetBioswe, BLE
<1> QED  BY <1>1, <1>2, <1>3, <1>4, <1>5 DEF UnlockNext

LEMMA UnlockInvCorrect == UnlockSpec => []UnlockInv
<1>1. UnlockInit => UnlockInv  BY UnlockInvInit
<1>2. UnlockInv /\ [UnlockNext]_unlockVars => UnlockInv'  BY UnlockInvNext
<1> QED  BY <1>1, <1>2, PTL DEF UnlockSpec

\* Every variable keeps its type; in particular wait_ec polls at most Polls
\* times and the EC's clock never passes zero.
THEOREM UnlockTypeCorrect == UnlockSpec => []UnlockTypeOK
<1>1. UnlockInv => UnlockTypeOK  BY DEF UnlockInv
<1> QED  BY <1>1, UnlockInvCorrect, PTL

\* What the last run of dell_flash_unlock printed is so, on every machine and
\* after any history of runs, shutdowns, reboots and flashing (the messages
\* of main, wait_ec's timeout and the two ends of the SMI sequence).
THEOREM ToldTrueCorrect == UnlockSpec => []ToldTrue
<1>1. UnlockInv => ToldTrue  BY DEF UnlockInv
<1> QED  BY <1>1, UnlockInvCorrect, PTL
-----------------------------------------------------------------------------
(***************************************************************************)
(* nvmutil.  The inductive invariant says, for each step of a command, how *)
(* far the temporary file is on the way from the content that was opened   *)
(* to the result of the command.  Between the write and the comparison the *)
(* parts to be modified may hold anything; everything else is as it was.   *)
(***************************************************************************)

USE DEF shared, chosen

PartsOf(f) == [p \in Part |-> f[gbe_file_offset(p)]]

\* The parts in memory when they are written.
Final(c, b) ==
  [p \in Part |-> IF chksum_write(c) /\ p \in part_modified(c, b)
                    THEN set_checksum(run(c, b)[p]) ELSE run(c, b)[p]]

\* t differs from f at most in the first rw_size bytes of the given parts.
Elsewhere(c, t, f, parts) ==
  /\ \A k \in 0..(2 * half - 1) :
       (\A p \in parts : k # gbe_file_offset(p)) => t[k] = f[k]
  /\ ~whole_part(c) => \A k \in 0..(2 * half - 1) : t[k].tail = f[k].tail

Opened(u) ==
  pc[u] \notin {"idle", "open"} => gbe[u] \in File

Copied(u) ==
  pc[u] \in {"run", "write"} => tmp[u] = gbe[u]

Loaded(u) ==
  pc[u] = "run" => buf[u] = PartsOf(gbe[u])

Chosen(u) ==
  pc[u] \in {"write", "fsync", "check", "mv"} =>
    /\ cmd[u] \in Writers
    /\ GF!Applies(cmd[u], gbe[u])
    /\ modified[u] = part_modified(cmd[u], PartsOf(gbe[u]))
    /\ pc[u] = "write" => buf[u] = run(cmd[u], PartsOf(gbe[u]))

Written(u) ==
  pc[u] \in {"fsync", "check"} =>
    /\ tmp[u] \in File
    /\ buf[u] = Final(cmd[u], PartsOf(gbe[u]))
    /\ Elsewhere(cmd[u], tmp[u], gbe[u], modified[u])

Synced(u) ==
  pc[u] \in {"check", "mv"} => tmpsynced[u] = TRUE

Ready(u) ==
  pc[u] = "mv" => tmp[u] \in File /\ tmp[u] = GF!Result(cmd[u], gbe[u])

Stage(u) ==
  Opened(u) /\ Copied(u) /\ Loaded(u) /\ Chosen(u) /\ Written(u) /\ Synced(u) /\ Ready(u)

IInv == TypeOK /\ synced = TRUE /\ \A u \in Users : Stage(u)

-----------------------------------------------------------------------------
(* Files and parts. *)

LEMMA Offsets ==
  /\ gbe_file_offset(0) = 0 /\ gbe_file_offset(1) = half
  /\ 0 \in 0..(2 * half - 1) /\ half \in 0..(2 * half - 1) /\ half # 0
  /\ GF!At(0) = 0 /\ GF!At(1) = half
  BY GbeLayoutAssumption DEF gbe_file_offset, GF!At

LEMMA PartsType ==
  ASSUME NEW f \in File
  PROVE  /\ PartsOf(f) \in [Part -> Block]
         /\ PartsOf(f)[0] = f[0] /\ PartsOf(f)[1] = f[half]
  BY Offsets DEF PartsOf, Part, File

LEMMA ChecksumType ==
  ASSUME NEW m \in Macs
  PROVE  calculated_checksum(m) \in Word
  BY GbeLayoutAssumption DEF calculated_checksum, Word

LEMMA SetTypes ==
  ASSUME NEW b \in Block, NEW m \in Macs
  PROVE  set_mac(m, b) \in Block /\ set_checksum(b) \in Block
  BY ChecksumType DEF set_mac, set_checksum, Block

\* GbeFile and NvmUtil have the same layout.
LEMMA SameLayout ==
  /\ \A m : GF!calculated_checksum(m) = calculated_checksum(m)
  /\ \A b : GF!good_checksum(b) = good_checksum(b)
  /\ GF!Part = Part /\ GF!Writers = Writers
  BY DEF GF!calculated_checksum, calculated_checksum, GF!good_checksum, good_checksum,
         GF!Part, Part, GF!Writers, Writers, GF!Command, Command

LEMMA SetMacIs ==
  ASSUME NEW b \in Block, NEW m \in Macs
  PROVE  LET r == [mac |-> m, sum |-> calculated_checksum(m), tail |-> b.tail]
         IN  set_checksum(set_mac(m, b)) = r /\ GF!SetMac(m, b) = r
  <1>1. set_mac(m, b) = [mac |-> m, sum |-> b.sum, tail |-> b.tail]
    BY DEF set_mac, Block
  <1>2. set_checksum(set_mac(m, b)) =
          [mac |-> m, sum |-> calculated_checksum(m), tail |-> b.tail]
    BY <1>1 DEF set_checksum
  <1>3. GF!SetMac(m, b) = [mac |-> m, sum |-> calculated_checksum(m), tail |-> b.tail]
    <2>1. GF!SetMac(m, b) = [b EXCEPT !.mac = m, !.sum = calculated_checksum(m)]
      BY SameLayout DEF GF!SetMac
    <2> QED
      BY <2>1 DEF Block
  <1> QED
    BY <1>2, <1>3

LEMMA WriterCases ==
  ASSUME NEW c \in Writers
  PROVE  \/ c.name = "setmac" /\ c.arg \in Macs
         \/ c.name = "swap" /\ c.arg = 0
         \/ c.name = "copy" /\ c.arg \in Part
  BY DEF Writers, Command

LEMMA RunOf ==
  ASSUME NEW c \in Writers, NEW b \in [Part -> Block]
  PROVE  /\ c.name = "setmac" =>
              /\ run(c, b) = [p \in Part |->
                    IF good_checksum(b[p]) THEN set_mac(c.arg, b[p]) ELSE b[p]]
              /\ part_modified(c, b) = {p \in Part : good_checksum(b[p])}
              /\ chksum_write(c) /\ ~whole_part(c)
         /\ c.name = "swap" =>
              /\ run(c, b) = [p \in Part |-> b[1 - p]]
              /\ part_modified(c, b) = Part
              /\ ~chksum_write(c) /\ whole_part(c)
         /\ c.name = "copy" =>
              /\ run(c, b) = [p \in Part |-> b[c.arg]]
              /\ part_modified(c, b) = {1 - c.arg}
              /\ ~chksum_write(c) /\ whole_part(c)
  BY DEF run, part_modified, chksum_write, whole_part

LEMMA RunType ==
  ASSUME NEW c \in Writers, NEW b \in [Part -> Block]
  PROVE  /\ run(c, b) \in [Part -> Block]
         /\ part_modified(c, b) \subseteq Part
         /\ Final(c, b) \in [Part -> Block]
  <1>1. run(c, b) \in [Part -> Block] /\ part_modified(c, b) \subseteq Part
    <2>1. CASE c.name = "setmac" /\ c.arg \in Macs
      <3>1. \A p \in Part : set_mac(c.arg, b[p]) \in Block
        BY <2>1, SetTypes
      <3> QED
        BY <2>1, <3>1, RunOf
    <2>2. CASE c.name = "swap"
      <3>1. \A p \in Part : 1 - p \in Part
        BY DEF Part
      <3> QED
        BY <2>2, <3>1, RunOf
    <2>3. CASE c.name = "copy" /\ c.arg \in Part
      <3>1. 1 - c.arg \in Part
        BY <2>3 DEF Part
      <3> QED
        BY <2>3, <3>1, RunOf
    <2> QED
      BY <2>1, <2>2, <2>3, WriterCases
  <1>2. \A p \in Part : set_checksum(run(c, b)[p]) \in Block
    <2> TAKE p \in Part
    <2>1. run(c, b)[p] \in Block
      BY <1>1
    <2>2. run(c, b)[p].mac \in Macs
      BY <2>1 DEF Block
    <2> QED
      BY <2>1, <2>2, SetTypes
  <1> QED
    BY <1>1, <1>2 DEF Final

-----------------------------------------------------------------------------
(* What is written to the temporary file, and what the comparison shows. *)

\* Writing parts leaves a whole file, and everything else as it was.
LEMMA WrittenElsewhere ==
  ASSUME NEW c \in Writers, NEW f \in File,
         NEW parts \in SUBSET Part, NEW b \in [Part -> Block]
  PROVE  /\ written(c, f, parts, b) \in File
         /\ Elsewhere(c, written(c, f, parts, b), f, parts)
  <1> DEFINE part_at(k) == CHOOSE p \in parts : k = gbe_file_offset(p)
             K == 0..(2 * half - 1)
             t == written(c, f, parts, b)
  <1>1. /\ DOMAIN f = K
        /\ \A k \in K : f[k] \in Block
    BY DEF File
  <1>2. \A k \in K : (\E p \in parts : k = gbe_file_offset(p)) => part_at(k) \in Part
    OBVIOUS
  <1>3. \A x, y \in Block : pwrite(c, x, y) \in Block
    BY DEF pwrite, Block
  <1>4. \A x, y \in Block : ~whole_part(c) => pwrite(c, x, y).tail = x.tail
    BY DEF pwrite, Block
  <1>5. t = [k \in K |-> IF \E p \in parts : k = gbe_file_offset(p)
                           THEN pwrite(c, f[k], b[part_at(k)]) ELSE f[k]]
    BY <1>1 DEF written
  <1>6. \A k \in K : t[k] \in Block /\ (~whole_part(c) => t[k].tail = f[k].tail)
    BY <1>1, <1>2, <1>3, <1>4, <1>5
  <1>7. \A k \in K : (\A p \in parts : k # gbe_file_offset(p)) => t[k] = f[k]
    BY <1>5
  <1>8. t \in File
    BY <1>5, <1>6 DEF File
  <1> QED
    BY <1>6, <1>7, <1>8 DEF Elsewhere

\* A file that passes the comparison is the result of the command.
LEMMA Compared ==
  ASSUME NEW c \in Writers, NEW f \in File, NEW t \in File,
         Elsewhere(c, t, f, part_modified(c, PartsOf(f))),
         \A p \in part_modified(c, PartsOf(f)) :
            vcmp(c, t[gbe_file_offset(p)], Final(c, PartsOf(f))[p])
  PROVE  t = GF!Result(c, f)
  <1> DEFINE K  == 0..(2 * half - 1)
             b  == PartsOf(f)
             ps == part_modified(c, b)
  <1>1. /\ DOMAIN f = K /\ DOMAIN t = K
        /\ \A k \in K : f[k] \in Block /\ t[k] \in Block
        /\ t = [k \in K |-> t[k]]
    BY DEF File
  <1>2. b \in [Part -> Block] /\ b[0] = f[0] /\ b[1] = f[half]
    BY PartsType
  <1>3. \A x, y \in Block : whole_part(c) /\ vcmp(c, x, y) => x = y
    BY DEF vcmp, Block
  <1>4. CASE c.name = "setmac" /\ c.arg \in Macs
    <2>1. /\ ps = {p \in Part : good_checksum(b[p])}
          /\ \A p \in ps : Final(c, b)[p] = set_checksum(set_mac(c.arg, b[p]))
          /\ ~whole_part(c)
      BY <1>2, <1>4, RunOf DEF Final
    <2>2. \A x, y \in Block :
             /\ vcmp(c, x, set_checksum(set_mac(c.arg, y)))
             /\ x.tail = y.tail
             => x = GF!SetMac(c.arg, y)
      <3> TAKE x, y \in Block
      <3> DEFINE r == [mac |-> c.arg, sum |-> calculated_checksum(c.arg), tail |-> y.tail]
      <3> HAVE vcmp(c, x, set_checksum(set_mac(c.arg, y))) /\ x.tail = y.tail
      <3>1. set_checksum(set_mac(c.arg, y)) = r /\ GF!SetMac(c.arg, y) = r
        BY <1>4, SetMacIs
      <3>2. x.mac = r.mac /\ x.sum = r.sum /\ x.tail = r.tail
        BY <3>1 DEF vcmp
      <3>3. x = r
        BY <3>2 DEF Block
      <3> QED
        BY <3>1, <3>3
    <2>3. \A k \in K : t[k].tail = f[k].tail
      BY <2>1 DEF Elsewhere
    <2>4. t[0] = IF good_checksum(f[0]) THEN GF!SetMac(c.arg, f[0]) ELSE f[0]
      <3>1. CASE good_checksum(f[0])
        <4>1. 0 \in ps /\ vcmp(c, t[0], set_checksum(set_mac(c.arg, f[0])))
          BY <2>1, <3>1, <1>2, Offsets DEF Part
        <4> QED
          BY <4>1, <2>2, <2>3, <3>1, <1>1, Offsets
      <3>2. CASE ~good_checksum(f[0])
        <4>1. \A p \in ps : 0 # gbe_file_offset(p)
          BY <2>1, <3>2, <1>2, Offsets DEF Part
        <4> QED
          BY <4>1, <3>2, Offsets DEF Elsewhere
      <3> QED
        BY <3>1, <3>2
    <2>5. t[half] = IF good_checksum(f[half]) THEN GF!SetMac(c.arg, f[half]) ELSE f[half]
      <3>1. CASE good_checksum(f[half])
        <4>1. 1 \in ps /\ vcmp(c, t[half], set_checksum(set_mac(c.arg, f[half])))
          BY <2>1, <3>1, <1>2, Offsets DEF Part
        <4> QED
          BY <4>1, <2>2, <2>3, <3>1, <1>1, Offsets
      <3>2. CASE ~good_checksum(f[half])
        <4>1. \A p \in ps : half # gbe_file_offset(p)
          BY <2>1, <3>2, <1>2, Offsets DEF Part
        <4> QED
          BY <4>1, <3>2, Offsets DEF Elsewhere
      <3> QED
        BY <3>1, <3>2
    <2>6. \A k \in K \ {0, half} : t[k] = f[k]
      BY <2>1, Offsets DEF Elsewhere, Part
    <2>7. GF!Result(c, f) =
            [k \in K |-> IF k \in {0, half} /\ good_checksum(f[k])
                           THEN GF!SetMac(c.arg, f[k]) ELSE f[k]]
      BY <1>1, <1>4, SameLayout DEF GF!Result
    <2>8. \A k \in K : t[k] = IF k \in {0, half} /\ good_checksum(f[k])
                           THEN GF!SetMac(c.arg, f[k]) ELSE f[k]
      BY <2>4, <2>5, <2>6
    <2> QED
      BY <2>7, <2>8, <1>1
  <1>5. CASE c.name = "swap"
    <2>1. ps = Part /\ Final(c, b)[0] = f[half] /\ Final(c, b)[1] = f[0] /\ whole_part(c)
      BY <1>2, <1>5, RunOf DEF Final, Part
    <2>2. t[0] = f[half] /\ t[half] = f[0]
      BY <2>1, <1>1, <1>3, Offsets DEF Part
    <2>3. \A k \in K \ {0, half} : t[k] = f[k]
      BY <2>1, Offsets DEF Elsewhere, Part
    <2>4. GF!Result(c, f) = [f EXCEPT ![0] = f[half], ![half] = f[0]]
      BY <1>5 DEF GF!Result
    <2>5. \A k \in K : [f EXCEPT ![0] = f[half], ![half] = f[0]][k] = t[k]
      BY <2>2, <2>3, <1>1, Offsets
    <2> QED
      BY <2>4, <2>5, <1>1
  <1>6. CASE c.name = "copy" /\ c.arg \in Part
    <2>1. ps = {1 - c.arg} /\ Final(c, b)[1 - c.arg] = b[c.arg] /\ whole_part(c)
      BY <1>2, <1>6, RunOf DEF Final, Part
    <2>2. GF!Result(c, f) = [f EXCEPT ![GF!At(1 - c.arg)] = f[GF!At(c.arg)]]
      BY <1>6 DEF GF!Result
    <2>3. CASE c.arg = 0
      <3>1. t[half] = f[0]
        BY <2>1, <2>3, <1>1, <1>2, <1>3, Offsets DEF Part
      <3>2. \A k \in K \ {half} : t[k] = f[k]
        BY <2>1, <2>3, Offsets DEF Elsewhere, Part
      <3>3. GF!Result(c, f) = [f EXCEPT ![half] = f[0]]
        <4>1. GF!At(1 - c.arg) = half /\ GF!At(c.arg) = 0
          BY <2>3 DEF GF!At
        <4> QED
          BY <2>2, <4>1
      <3>4. \A k \in K : [f EXCEPT ![half] = f[0]][k] = t[k]
        BY <3>1, <3>2, <1>1, Offsets
      <3> QED
        BY <3>3, <3>4, <1>1
    <2>4. CASE c.arg = 1
      <3>1. t[0] = f[half]
        BY <2>1, <2>4, <1>1, <1>2, <1>3, Offsets DEF Part
      <3>2. \A k \in K \ {0} : t[k] = f[k]
        BY <2>1, <2>4, Offsets DEF Elsewhere, Part
      <3>3. GF!Result(c, f) = [f EXCEPT ![0] = f[half]]
        <4>1. GF!At(1 - c.arg) = 0 /\ GF!At(c.arg) = half
          BY <2>4 DEF GF!At
        <4> QED
          BY <2>2, <4>1
      <3>4. \A k \in K : [f EXCEPT ![0] = f[half]][k] = t[k]
        BY <3>1, <3>2, <1>1, Offsets
      <3> QED
        BY <3>3, <3>4, <1>1
    <2> QED
      BY <2>3, <2>4, <1>6 DEF Part
  <1> QED
    BY <1>4, <1>5, <1>6, WriterCases

-----------------------------------------------------------------------------
(* The types. *)

LEMMA GoneTypes ==
  ASSUME TypeOK, NEW u \in Users, Gone(u)
  PROVE  /\ pc' \in [Users -> {"idle", "open", "fstat", "read", "run", "write", "fsync",
                               "check", "mv"}]
         /\ cmd' \in [Users -> Readers \cup Writers]
         /\ faulty' \in [Users -> BOOLEAN] /\ linked' \in [Users -> BOOLEAN]
         /\ gbe' \in [Users -> File \cup {Empty}]
         /\ buf' \in [Users -> [Part -> Block] \cup {Empty}]
         /\ modified' \in [Users -> SUBSET Part]
         /\ tmp' \in [Users -> File \cup {Empty}]
         /\ tmpsynced' \in [Users -> BOOLEAN]
         /\ runs' \in 0..MaxRuns
  BY DEF TypeOK, Gone

LEMMA ExitTypes ==
  ASSUME TypeOK, NEW u \in Users, NEW s \in {"ok", "failed"}, Exit(u, s),
         file' \in File, synced' \in BOOLEAN, disk' \in File,
         replaced' \in [Users -> BOOLEAN]
  PROVE  TypeOK'
  BY GoneTypes DEF TypeOK, Exit, exit_cleanup

LEMMA TypeInit == Init => TypeOK
  BY NvmUtilAssumption DEF Init, TypeOK, Readers, Command

LEMMA TypeNext == IInv /\ [Next]_vars => TypeOK'
  <1> SUFFICES ASSUME IInv, [Next]_vars PROVE TypeOK'
    OBVIOUS
  <1> USE DEF IInv
  <1>1. ASSUME NEW u \in Users, xstart(u) PROVE TypeOK'
    BY <1>1, NvmUtilAssumption DEF xstart, TypeOK
  <1>2. ASSUME NEW u \in Users, open_gbe_file(u) PROVE TypeOK'
    BY <1>2 DEF open_gbe_file, Goto, TypeOK
  <1>3. ASSUME NEW u \in Users, copy_gbe(u) PROVE TypeOK'
    <2>1. gbe[u] \in File
      BY <1>3 DEF copy_gbe, Stage, Opened
    <2>2. [p \in Part |-> gbe[u][gbe_file_offset(p)]] \in [Part -> Block]
      BY <2>1, PartsType DEF PartsOf
    <2> QED
      BY <1>3, <2>1, <2>2 DEF copy_gbe, Goto, TypeOK
  <1>4. ASSUME NEW u \in Users, run_command(u) PROVE TypeOK'
    <2>1. CASE Exit(u, "failed") \/ Exit(u, "ok")
      BY <1>4, <2>1, ExitTypes DEF run_command, TypeOK
    <2>2. CASE /\ writes(cmd[u])
               /\ buf' = [buf EXCEPT ![u] = run(cmd[u], buf[u])]
               /\ modified' = [modified EXCEPT ![u] = part_modified(cmd[u], buf[u])]
               /\ Goto(u, "write")
               /\ UNCHANGED <<chosen, gbe, tmp, tmpsynced, tname, runs>>
      <3>1. buf[u] \in [Part -> Block]
        BY <1>4, PartsType DEF run_command, Stage, Loaded, Opened
      <3>2. cmd[u] \in Writers
        BY <2>2 DEF TypeOK, writes, Readers, Command
      <3> QED
        BY <1>4, <2>2, <3>1, <3>2, RunType DEF run_command, Goto, TypeOK
    <2> QED
      BY <1>4, <2>1, <2>2 DEF run_command
  <1>5. ASSUME NEW u \in Users, write_gbe_file(u) PROVE TypeOK'
    <2>1. /\ pc[u] = "write" /\ cmd[u] \in Writers /\ modified[u] \in SUBSET Part
          /\ tmp[u] \in File /\ buf[u] \in [Part -> Block]
      BY <1>5, PartsType, RunType DEF write_gbe_file, Stage, Chosen, Copied, Opened, TypeOK
    <2>2. \A p \in Part : set_checksum(buf[u][p]) \in Block
      BY <2>1, SetTypes DEF Block
    <2>3. buf' \in [Users -> [Part -> Block] \cup {Empty}] /\ buf'[u] \in [Part -> Block]
      BY <1>5, <2>1, <2>2 DEF write_gbe_file, TypeOK
    <2>4. \A p \in Part, g \in Garbage : [buf'[u] EXCEPT ![p] = g] \in [Part -> Block]
      BY <2>3, NvmUtilAssumption
    <2>5. \A b \in [Part -> Block] : written(cmd[u], tmp[u], modified[u], b) \in File
      BY <2>1, WrittenElsewhere
    <2>6. tmp' \in [Users -> File \cup {Empty}]
      <3>1. PICK b \in [Part -> Block] :
                   tmp' = [tmp EXCEPT ![u] = written(cmd[u], tmp[u], modified[u], b)]
        BY <1>5, <2>3, <2>4 DEF write_gbe_file
      <3> QED
        BY <3>1, <2>5 DEF TypeOK
    <2> QED
      BY <1>5, <2>3, <2>6 DEF write_gbe_file, Goto, TypeOK
  <1>6. ASSUME NEW u \in Users, fsync_tmp(u) PROVE TypeOK'
    BY <1>6 DEF fsync_tmp, Goto, TypeOK
  <1>7. ASSUME NEW u \in Users, check_written(u) PROVE TypeOK'
    <2>1. CASE Exit(u, "failed")
      BY <1>7, <2>1, ExitTypes DEF check_written, TypeOK
    <2>2. CASE ~Exit(u, "failed")
      BY <1>7, <2>2 DEF check_written, Goto, TypeOK
    <2> QED
      BY <2>1, <2>2
  <1>8. ASSUME NEW u \in Users, gbe_mv(u) PROVE TypeOK'
    <2>1. tmp[u] \in File /\ tmpsynced[u] \in BOOLEAN
      BY <1>8 DEF gbe_mv, Stage, Ready, TypeOK
    <2>2. replaced' \in [Users -> BOOLEAN]
      BY <1>8 DEF gbe_mv, TypeOK
    <2> QED
      BY <1>8, <2>1, <2>2, ExitTypes DEF gbe_mv, TypeOK
  <1>14. ASSUME NEW u \in Users, check_links(u) PROVE TypeOK'
    <2>1. CASE Exit(u, "failed")
      BY <1>14, <2>1, ExitTypes DEF check_links, TypeOK
    <2>2. CASE ~Exit(u, "failed")
      BY <1>14, <2>2 DEF check_links, Goto, TypeOK
    <2> QED
      BY <2>1, <2>2
  <1>9. ASSUME NEW u \in Users, exitf(u) PROVE TypeOK'
    BY <1>9, ExitTypes DEF exitf, TypeOK
  <1>10. ASSUME NEW u \in Users, Kill(u) PROVE TypeOK'
    BY <1>10, GoneTypes DEF Kill, TypeOK
  <1>11. CASE Settle
    BY <1>11 DEF Settle, TypeOK
  <1>12. CASE PowerLoss
    BY <1>12 DEF PowerLoss, TypeOK
  <1>13. CASE UNCHANGED vars
    BY <1>13 DEF vars, TypeOK
  <1> QED
    BY <1>1, <1>2, <1>3, <1>4, <1>5, <1>6, <1>7, <1>8, <1>9, <1>10, <1>11, <1>12, <1>13,
       <1>14 DEF Next, Step

-----------------------------------------------------------------------------
(* The stages of a command. *)

\* Nothing of what a stage speaks about has changed.
Kept(v) ==
  /\ pc'[v] = pc[v] /\ cmd'[v] = cmd[v] /\ gbe'[v] = gbe[v] /\ buf'[v] = buf[v]
  /\ modified'[v] = modified[v] /\ tmp'[v] = tmp[v] /\ tmpsynced'[v] = tmpsynced[v]

LEMMA StageKept ==
  ASSUME NEW v \in Users, Stage(v), Kept(v)
  PROVE  Stage(v)'
  BY DEF Kept, Stage, Opened, Copied, Loaded, Chosen, Written, Synced, Ready

LEMMA StageIdle ==
  ASSUME NEW v \in Users, pc'[v] \in {"idle", "open"}
  PROVE  Stage(v)'
  BY DEF Stage, Opened, Copied, Loaded, Chosen, Written, Synced, Ready

LEMMA GoneStage ==
  ASSUME TypeOK, NEW u \in Users, Gone(u), \A v \in Users : Stage(v)
  PROVE  \A v \in Users : Stage(v)'
  <1>1. Stage(u)'
    BY StageIdle DEF Gone, TypeOK
  <1>2. \A v \in Users \ {u} : Kept(v)
    BY DEF Gone, TypeOK, Kept
  <1> QED
    BY <1>1, <1>2, StageKept

\* An action of u leaves the others alone.
LEMMA Others ==
  ASSUME TypeOK, NEW u \in Users, NEW v \in Users \ {u}, xstart(u) \/ Step(u) \/ Kill(u)
  PROVE  Kept(v)
  <1>1. CASE Gone(u)
    BY <1>1 DEF Gone, TypeOK, Kept
  <1>2. CASE xstart(u)
    BY <1>2 DEF xstart, TypeOK, Kept
  <1>3. CASE open_gbe_file(u)
    BY <1>3 DEF open_gbe_file, Goto, TypeOK, Kept
  <1>4. CASE copy_gbe(u)
    BY <1>4 DEF copy_gbe, Goto, TypeOK, Kept
  <1>5. CASE run_command(u) /\ ~Gone(u)
    BY <1>5 DEF run_command, Exit, Goto, TypeOK, Kept
  <1>6. CASE write_gbe_file(u)
    BY <1>6 DEF write_gbe_file, Goto, TypeOK, Kept
  <1>7. CASE fsync_tmp(u)
    BY <1>7 DEF fsync_tmp, Goto, TypeOK, Kept
  <1>8. CASE check_written(u) /\ ~Gone(u)
    BY <1>8 DEF check_written, Exit, Goto, TypeOK, Kept
  <1>9. CASE check_links(u) /\ ~Gone(u)
    BY <1>9 DEF check_links, Exit, Goto, TypeOK, Kept
  <1> QED
    BY <1>1, <1>2, <1>3, <1>4, <1>5, <1>6, <1>7, <1>8, <1>9
       DEF Step, gbe_mv, exitf, Kill, Exit

LEMMA StageInit == Init => \A v \in Users : Stage(v)
  BY DEF Init, Stage, Opened, Copied, Loaded, Chosen, Written, Synced, Ready

\* What the command has checked is what GbeFile asks for.
LEMMA ChecksApply ==
  ASSUME NEW c \in Writers, NEW f \in File, read_checksums(c, PartsOf(f))
  PROVE  GF!Applies(c, f)
  <1>1. CASE c.name = "copy" /\ c.arg \in Part
    BY <1>1, PartsType, Offsets, SameLayout DEF read_checksums, GF!Applies, Part
  <1>2. CASE c.name # "copy"
    BY <1>2, PartsType, Offsets, SameLayout DEF read_checksums, GF!Applies, Part
  <1> QED
    BY <1>1, <1>2, WriterCases

LEMMA StepStage ==
  ASSUME IInv, TypeOK', NEW u \in Users, Step(u), ~Gone(u)
  PROVE  Stage(u)'
  <1> USE DEF IInv
  <1>1. CASE open_gbe_file(u)
    BY <1>1 DEF open_gbe_file, Goto, TypeOK,
                Stage, Opened, Copied, Loaded, Chosen, Written, Synced, Ready
  <1>2. CASE copy_gbe(u)
    <2>1. gbe[u] \in File
      BY <1>2 DEF copy_gbe, Stage, Opened
    <2> QED
      BY <1>2, <2>1 DEF copy_gbe, Goto, TypeOK, PartsOf,
                Stage, Opened, Copied, Loaded, Chosen, Written, Synced, Ready
  <1>3. CASE run_command(u)
    <2>1. /\ pc[u] = "run" /\ gbe[u] \in File /\ tmp[u] = gbe[u]
          /\ buf[u] = PartsOf(gbe[u])
      BY <1>3 DEF run_command, Stage, Opened, Copied, Loaded
    <2>2. /\ writes(cmd[u]) /\ (chksum_read(cmd[u]) => read_checksums(cmd[u], buf[u]))
          /\ buf' = [buf EXCEPT ![u] = run(cmd[u], buf[u])]
          /\ modified' = [modified EXCEPT ![u] = part_modified(cmd[u], buf[u])]
          /\ Goto(u, "write")
          /\ UNCHANGED <<cmd, gbe, tmp, tmpsynced>>
      BY <1>3 DEF run_command, Exit
    <2>3. cmd[u] \in Writers
      BY <2>2 DEF TypeOK, writes, Readers, Command
    <2>4. GF!Applies(cmd[u], gbe[u])
      BY <2>1, <2>2, <2>3, WriterCases, ChecksApply DEF chksum_read
    <2>5. /\ pc'[u] = "write" /\ cmd'[u] = cmd[u] /\ gbe'[u] = gbe[u] /\ tmp'[u] = tmp[u]
          /\ buf'[u] = run(cmd[u], PartsOf(gbe[u]))
          /\ modified'[u] = part_modified(cmd[u], PartsOf(gbe[u]))
      BY <2>1, <2>2 DEF Goto, TypeOK
    <2> QED
      BY <2>1, <2>3, <2>4, <2>5
         DEF Stage, Opened, Copied, Loaded, Chosen, Written, Synced, Ready
  <1>4. CASE write_gbe_file(u)
    <2> DEFINE b == PartsOf(gbe[u])
    <2>1. /\ pc[u] = "write" /\ gbe[u] \in File /\ tmp[u] = gbe[u] /\ cmd[u] \in Writers
          /\ GF!Applies(cmd[u], gbe[u])
          /\ modified[u] = part_modified(cmd[u], b) /\ buf[u] = run(cmd[u], b)
      BY <1>4 DEF write_gbe_file, Stage, Opened, Copied, Chosen
    <2>2. /\ pc'[u] = "fsync" /\ cmd'[u] = cmd[u] /\ gbe'[u] = gbe[u]
          /\ modified'[u] = modified[u]
      BY <1>4 DEF write_gbe_file, Goto, TypeOK
    <2>3. buf'[u] = Final(cmd[u], b)
      BY <1>4, <2>1 DEF write_gbe_file, Final, TypeOK
    <2>4. b \in [Part -> Block] /\ Final(cmd[u], b) \in [Part -> Block]
          /\ modified[u] \in SUBSET Part
      BY <2>1, PartsType, RunType
    <2>5. \A p \in Part, g \in Garbage : [buf'[u] EXCEPT ![p] = g] \in [Part -> Block]
      BY <2>3, <2>4, NvmUtilAssumption
    <2>6. PICK w \in [Part -> Block] :
                 tmp' = [tmp EXCEPT ![u] = written(cmd[u], tmp[u], modified[u], w)]
      BY <1>4, <2>3, <2>4, <2>5 DEF write_gbe_file
    <2>7. tmp'[u] \in File /\ Elsewhere(cmd[u], tmp'[u], gbe[u], modified[u])
      BY <2>1, <2>4, <2>6, WrittenElsewhere DEF TypeOK
    <2> QED
      BY <2>1, <2>2, <2>3, <2>7
         DEF Stage, Opened, Copied, Loaded, Chosen, Written, Synced, Ready
  <1>5. CASE fsync_tmp(u)
    BY <1>5 DEF fsync_tmp, Goto, TypeOK,
                Stage, Opened, Copied, Loaded, Chosen, Written, Synced, Ready
  <1>6. CASE check_written(u)
    <2>1. /\ pc[u] = "check" /\ pc'[u] = "mv"
          /\ UNCHANGED <<cmd, gbe, buf, modified, tmp, tmpsynced>>
          /\ \A p \in Part : check_written_part(u, p)
      BY <1>6 DEF check_written, Exit, Goto, TypeOK
    <2>2. /\ gbe[u] \in File /\ cmd[u] \in Writers /\ tmp[u] \in File
          /\ modified[u] = part_modified(cmd[u], PartsOf(gbe[u]))
          /\ buf[u] = Final(cmd[u], PartsOf(gbe[u]))
          /\ Elsewhere(cmd[u], tmp[u], gbe[u], modified[u])
      BY <2>1 DEF Stage, Opened, Chosen, Written
    <2>3. \A p \in modified[u] :
             vcmp(cmd[u], tmp[u][gbe_file_offset(p)], Final(cmd[u], PartsOf(gbe[u]))[p])
      BY <2>1, <2>2 DEF check_written_part, TypeOK
    <2>4. tmp[u] = GF!Result(cmd[u], gbe[u])
      BY <2>2, <2>3, Compared
    <2> QED
      BY <2>1, <2>2, <2>4
         DEF Stage, Opened, Copied, Loaded, Chosen, Written, Synced, Ready
  <1>7. CASE check_links(u)
    BY <1>7 DEF check_links, Exit, Goto, TypeOK,
                Stage, Opened, Copied, Loaded, Chosen, Written, Synced, Ready
  <1> QED
    BY <1>1, <1>2, <1>3, <1>4, <1>5, <1>6, <1>7 DEF Step, gbe_mv, exitf, Exit

LEMMA IInvNext == IInv /\ [Next]_vars => IInv'
  <1> SUFFICES ASSUME IInv, [Next]_vars PROVE IInv'
    OBVIOUS
  <1>1. TypeOK'
    BY TypeNext
  <1>2. ASSUME NEW u \in Users, xstart(u) \/ Step(u) \/ Kill(u)
        PROVE  synced' = TRUE /\ \A v \in Users : Stage(v)'
    <2>1. synced' = TRUE
      BY <1>2 DEF IInv, Stage, Synced, xstart, Step, Kill, open_gbe_file, check_links,
                  copy_gbe, run_command, write_gbe_file, fsync_tmp, check_written, gbe_mv, exitf
    <2>2. CASE Gone(u)
      BY <2>1, <2>2, GoneStage DEF IInv
    <2>3. CASE ~Gone(u)
      <3>1. \A v \in Users \ {u} : Stage(v)'
        BY <1>2, Others, StageKept DEF IInv
      <3>2. Stage(u)'
        <4>1. CASE xstart(u)
          BY <4>1, StageIdle DEF IInv, xstart, TypeOK
        <4>2. CASE Step(u)
          BY <4>2, <2>3, <1>1, StepStage
        <4> QED
          BY <4>1, <4>2, <1>2, <2>3 DEF Kill
      <3> QED
        BY <2>1, <3>1, <3>2
    <2> QED
      BY <2>2, <2>3
  <1>3. CASE Settle \/ UNCHANGED vars
    <2>1. \A v \in Users : Kept(v)
      BY <1>3 DEF Settle, vars, Kept
    <2>2. synced' = TRUE
      BY <1>3 DEF Settle, vars, IInv
    <2> QED
      BY <1>1, <2>1, <2>2, StageKept DEF IInv
  <1>4. CASE PowerLoss
    <2>1. \A v \in Users : pc'[v] \in {"idle", "open"}
      BY <1>4 DEF PowerLoss
    <2>2. synced' = TRUE
      BY <1>4 DEF PowerLoss
    <2> QED
      BY <1>1, <2>1, <2>2, StageIdle DEF IInv
  <1> QED
    BY <1>1, <1>2, <1>3, <1>4 DEF Next, IInv

\* The inductive invariant: every step of every command leaves the temporary
\* file where the next step expects it, whatever the others do.
THEOREM IInvCorrect == Spec => []IInv
  <1>1. Init => IInv
    BY TypeInit, StageInit DEF Init, IInv
  <1> QED
    BY <1>1, IInvNext, PTL DEF Spec

\* The variables have their types; in particular a power loss finds a whole
\* GbE file on the disk, since a file is synced before it is renamed.
THEOREM TypeCorrect == Spec => []TypeOK
  BY IInvCorrect, PTL DEF IInv

-----------------------------------------------------------------------------
(* Refinement. *)

LEMMA RefinesInit == Init => GF!Init
  BY DEF Init, GF!Init, working

\* A step of a user that does not rename: what running commands have seen
\* loses some contents, or gains the one the file has.
LEMMA LookStep ==
  ASSUME IInv, NEW u \in Users, xstart(u) \/ Step(u) \/ Kill(u), ~gbe_mv(u)
  PROVE  GF!Look
  <1>1. file' = file /\ disk' = disk
    BY DEF xstart, Step, Kill, open_gbe_file, check_links, copy_gbe, run_command,
           write_gbe_file, fsync_tmp, check_written, exitf
  <1>2. ASSUME NEW v \in Users, v \in working'
        PROVE  (v \in working /\ gbe'[v] = gbe[v]) \/ gbe'[v] = file
    <2>1. CASE v # u
      BY <2>1, <1>2, Others DEF IInv, Kept, working
    <2>2. CASE v = u
      <3>1. ~Gone(u) /\ ~xstart(u)
        BY <2>2, <1>2 DEF IInv, TypeOK, Gone, xstart, working
      <3>2. CASE open_gbe_file(u)
        BY <2>2, <3>2 DEF IInv, TypeOK, open_gbe_file
      <3>3. CASE ~open_gbe_file(u)
        BY <2>2, <3>1, <3>3 DEF Step, Kill, exitf, Exit, check_links, copy_gbe, run_command,
           write_gbe_file, fsync_tmp, check_written, working
      <3> QED
        BY <3>2, <3>3
    <2> QED
      BY <2>1, <2>2
  <1>3. working' \subseteq Users
    BY DEF working
  <1> QED
    BY <1>1, <1>2, <1>3 DEF GF!Look

LEMMA RenameStep ==
  ASSUME IInv, NEW u \in Users, gbe_mv(u)
  PROVE  GF!Replace
  <1>1. u \in working /\ cmd[u] \in Writers /\ GF!Applies(cmd[u], gbe[u])
    BY DEF gbe_mv, IInv, Stage, Chosen, working
  <1>2. file' = GF!Result(cmd[u], gbe[u]) /\ disk' = disk
    BY DEF gbe_mv, IInv, Stage, Ready
  <1>3. \A v \in Users : v \in working' => v \in working /\ gbe'[v] = gbe[v]
    <2>1. pc'[u] = "idle"
      BY DEF gbe_mv, Exit, Gone, IInv, TypeOK
    <2> QED
      BY <2>1, Others DEF Step, IInv, Kept, working
  <1>4. {gbe'[v] : v \in working'} \subseteq {gbe[v] : v \in working}
    BY <1>3 DEF working
  <1> QED
    BY <1>1, <1>2, <1>4, SameLayout DEF GF!Replace

LEMMA RefinesNext == IInv /\ [Next]_vars => [GF!Next]_(GF!vars)
  <1> SUFFICES ASSUME IInv, [Next]_vars PROVE GF!Next \/ UNCHANGED GF!vars
    OBVIOUS
  <1>1. ASSUME NEW u \in Users, xstart(u) \/ Step(u) \/ Kill(u) PROVE GF!Next
    BY <1>1, LookStep, RenameStep DEF GF!Next
  <1>2. CASE Settle
    <2>1. {gbe'[u] : u \in working'} = {gbe[u] : u \in working}
      BY <1>2 DEF Settle, working
    <2> QED
      BY <1>2, <2>1 DEF Settle, IInv, GF!Next, GF!Settle
  <1>3. CASE PowerLoss
    <2>1. working' = {}
      BY <1>3 DEF PowerLoss, working
    <2> QED
      BY <1>3, <2>1 DEF PowerLoss, GF!Next, GF!PowerLoss
  <1>4. CASE UNCHANGED vars
    <2>1. {gbe'[u] : u \in working'} = {gbe[u] : u \in working}
      BY <1>4 DEF vars, working
    <2> QED
      BY <1>4, <2>1 DEF vars, GF!vars
  <1> QED
    BY <1>1, <1>2, <1>3, <1>4 DEF Next

\* nvmutil replaces the file as a whole, by what a command makes of a content
\* the file had, through I/O errors, corrupt writes, kills and power losses.
THEOREM Refinement == Spec => ImplementsGbeFile
  BY IInvCorrect, RefinesInit, RefinesNext, PTL DEF Spec, GF!Spec, ImplementsGbeFile

-----------------------------------------------------------------------------
(* A valid part is kept. *)

\* Where there is a valid part, in the file, on the disk or in a content that
\* a command works on, there is one in all of them: without one, no command
\* does anything.
SameUse ==
  /\ HasValidPart(disk) = HasValidPart(file)
  /\ \A u \in working : HasValidPart(gbe[u]) = HasValidPart(file)

LEMMA ResultKeeps ==
  ASSUME NEW c \in Writers, NEW f \in File, GF!Applies(c, f)
  PROVE  HasValidPart(f) /\ HasValidPart(GF!Result(c, f))
  <1>1. /\ DOMAIN f = 0..(2 * half - 1) /\ f[0] \in Block /\ f[half] \in Block
        /\ 0 \in DOMAIN f /\ half \in DOMAIN f /\ half # 0
    BY Offsets DEF File
  <1>2. HasValidPart(f)
    BY WriterCases, SameLayout DEF GF!Applies, GF!At, HasValidPart, Part
  <1>3. CASE c.name = "setmac" /\ c.arg \in Macs
    <2>1. \A b \in Block : good_checksum(GF!SetMac(c.arg, b))
      BY <1>3, SetMacIs DEF good_checksum
    <2>2. \A k \in {0, half} :
             good_checksum(f[k]) => GF!Result(c, f)[k] = GF!SetMac(c.arg, f[k])
      BY <1>1, <1>3, SameLayout DEF GF!Result
    <2> QED
      BY <1>1, <1>2, <2>1, <2>2 DEF HasValidPart
  <1>4. CASE c.name = "swap"
    <2>1. GF!Result(c, f) = [f EXCEPT ![0] = f[half], ![half] = f[0]]
      BY <1>4 DEF GF!Result
    <2>2. GF!Result(c, f)[0] = f[half] /\ GF!Result(c, f)[half] = f[0]
      BY <1>1, <2>1
    <2> QED
      BY <1>2, <2>2 DEF HasValidPart
  <1>5. CASE c.name = "copy" /\ c.arg \in Part
    <2> DEFINE a == GF!At(c.arg)
               z == GF!At(1 - c.arg)
    <2>1. a \in {0, half} /\ z \in {0, half} /\ a # z
      BY <1>1, <1>5 DEF GF!At, Part
    <2>2. good_checksum(f[a])
      BY <1>5, SameLayout DEF GF!Applies
    <2>3. GF!Result(c, f) = [f EXCEPT ![z] = f[a]]
      BY <1>5 DEF GF!Result
    <2>4. GF!Result(c, f)[a] = f[a]
      BY <1>1, <2>1, <2>3
    <2> QED
      BY <1>2, <2>1, <2>2, <2>4 DEF HasValidPart
  <1> QED
    BY <1>2, <1>3, <1>4, <1>5, WriterCases

LEMMA SameUseNext ==
  ASSUME IInv, SameUse, [Next]_vars
  PROVE  SameUse' /\ (HasValidPart(file) => HasValidPart(file'))
  <1>1. ASSUME NEW u \in Users, gbe_mv(u)
        PROVE  SameUse' /\ (HasValidPart(file) => HasValidPart(file'))
    <2>1. u \in working /\ cmd[u] \in Writers /\ GF!Applies(cmd[u], gbe[u]) /\ gbe[u] \in File
      BY <1>1 DEF gbe_mv, IInv, Stage, Chosen, Opened, working
    <2>2. file' = GF!Result(cmd[u], gbe[u]) /\ disk' = disk
      BY <1>1 DEF gbe_mv, IInv, Stage, Ready
    <2>3. HasValidPart(file) /\ HasValidPart(file')
      BY <2>1, <2>2, ResultKeeps DEF SameUse
    <2>4. pc'[u] = "idle"
      BY <1>1 DEF gbe_mv, Exit, Gone, IInv, TypeOK
    <2>5. \A v \in working' : v \in working /\ gbe'[v] = gbe[v]
      BY <1>1, <2>4, Others DEF Step, IInv, Kept, working
    <2> QED
      BY <2>2, <2>3, <2>5 DEF SameUse
  <1>2. ASSUME NEW u \in Users, xstart(u) \/ Step(u) \/ Kill(u), ~gbe_mv(u)
        PROVE  SameUse' /\ file' = file
    <2>1. GF!Look
      BY <1>2, LookStep
    <2>2. \A v \in working' : gbe'[v] \in {gbe[w] : w \in working} \cup {file}
      BY <2>1 DEF GF!Look
    <2>3. file' = file /\ disk' = disk
      BY <2>1 DEF GF!Look
    <2> QED
      BY <2>2, <2>3 DEF SameUse
  <1>3. CASE Settle
    BY <1>3 DEF Settle, IInv, SameUse, working
  <1>4. CASE PowerLoss
    BY <1>4 DEF PowerLoss, SameUse, working
  <1>5. CASE UNCHANGED vars
    BY <1>5 DEF vars, SameUse, working
  <1> QED
    BY <1>1, <1>2, <1>3, <1>4, <1>5 DEF Next

\* Whatever commands are run by however many users, and whatever fails
\* meanwhile, a file with a valid part keeps one.
THEOREM KeepsAValidPartCorrect == Spec => KeepsAValidPart
  <1>1. Init => SameUse
    BY DEF Init, SameUse, working
  <1>2. IInv /\ SameUse /\ [Next]_vars => SameUse'
    BY SameUseNext
  <1>3. IInv /\ SameUse /\ [Next]_vars => [HasValidPart(file) => HasValidPart(file')]_vars
    BY SameUseNext
  <1> QED
    BY <1>1, <1>2, <1>3, IInvCorrect, PTL DEF Spec, KeepsAValidPart

-----------------------------------------------------------------------------
(* The exit status. *)

\* Without I/O errors, what has been written is what is read again.
Honest(u) ==
  pc[u] \in {"fsync", "check"} /\ ~faulty[u] => \A p \in Part : check_written_part(u, p)

LEMMA WrittenCompares ==
  ASSUME NEW c \in Writers, NEW f \in File, NEW parts \in SUBSET Part,
         NEW b \in [Part -> Block], NEW p \in parts
  PROVE  vcmp(c, written(c, f, parts, b)[gbe_file_offset(p)], b[p])
  <1> DEFINE k == gbe_file_offset(p)
  <1>1. k \in 0..(2 * half - 1) /\ \A q \in parts : k = gbe_file_offset(q) => q = p
    BY Offsets DEF Part
  <1>2. (CHOOSE q \in parts : k = gbe_file_offset(q)) = p
    BY <1>1
  <1>3. DOMAIN f = 0..(2 * half - 1) /\ f[k] \in Block /\ b[p] \in Block
    BY <1>1 DEF File
  <1>4. written(c, f, parts, b)[k] = pwrite(c, f[k], b[p])
    BY <1>1, <1>2, <1>3 DEF written
  <1>5. vcmp(c, pwrite(c, f[k], b[p]), b[p])
    BY <1>3 DEF vcmp, pwrite, Block
  <1> QED
    BY <1>4, <1>5

LEMMA HonestNext ==
  ASSUME IInv, \A u \in Users : Honest(u), [Next]_vars
  PROVE  \A u \in Users : Honest(u)'
  <1> USE DEF IInv, Honest, check_written_part
  <1>1. ASSUME NEW v \in Users, Kept(v), faulty'[v] = faulty[v] PROVE Honest(v)'
    BY <1>1 DEF Kept
  <1>2. ASSUME NEW u \in Users, xstart(u) \/ Step(u) \/ Kill(u), NEW v \in Users
        PROVE  Honest(v)'
    <2>1. faulty' = faulty \/ xstart(u)
      BY <1>2 DEF Step, Kill, Gone, Exit, open_gbe_file, check_links, copy_gbe, run_command,
                  write_gbe_file, fsync_tmp, check_written, gbe_mv, exitf
    <2>2. CASE v # u
      BY <1>1, <1>2, <2>1, <2>2, Others DEF xstart, TypeOK
    <2>3. CASE v = u /\ write_gbe_file(u)
      <3>1. /\ cmd[u] \in Writers /\ gbe[u] \in File /\ tmp[u] = gbe[u]
            /\ modified[u] \in SUBSET Part /\ buf'[u] \in [Part -> Block]
            /\ cmd'[u] = cmd[u] /\ modified'[u] = modified[u] /\ faulty'[u] = faulty[u]
        <4>1. /\ pc[u] = "write" /\ cmd[u] \in Writers /\ gbe[u] \in File
              /\ tmp[u] = gbe[u] /\ modified[u] \in SUBSET Part
          BY <2>3 DEF write_gbe_file, Stage, Opened, Copied, Chosen, TypeOK
        <4>2. buf' \in [Users -> [Part -> Block] \cup {Empty}] /\ u \in DOMAIN buf
          BY TypeNext DEF TypeOK
        <4>3. buf'[u] = [p \in Part |->
                 IF chksum_write(cmd[u]) /\ p \in modified[u] THEN set_checksum(buf[u][p])
                                                             ELSE buf[u][p]]
          BY <2>3, <4>2 DEF write_gbe_file
        <4>4. buf'[u] \in [Part -> Block]
          <5>1. 0 \in DOMAIN buf'[u] /\ 0 \notin DOMAIN Empty
            BY <4>3 DEF Part, Empty
          <5> QED
            BY <5>1, <4>2
        <4> QED
          BY <2>3, <4>1, <4>4 DEF write_gbe_file
      <3>2. CASE faulty[u]
        BY <2>3, <3>1, <3>2
      <3>3. CASE tmp' = [tmp EXCEPT ![u] = written(cmd[u], tmp[u], modified[u], buf'[u])]
        <4>1. tmp'[u] = written(cmd[u], gbe[u], modified[u], buf'[u])
          BY <3>1, <3>3 DEF TypeOK
        <4> QED
          BY <2>3, <3>1, <4>1, WrittenCompares
      <3> QED
        BY <2>3, <3>2, <3>3 DEF write_gbe_file
    <2>4. CASE v = u /\ fsync_tmp(u)
      BY <2>4 DEF fsync_tmp, Goto, TypeOK
    <2>5. CASE v = u /\ ~write_gbe_file(u) /\ ~fsync_tmp(u)
      <3>1. pc'[u] \notin {"fsync", "check"}
        BY <1>2, <2>5 DEF Step, Kill, Gone, Exit, Goto, xstart, open_gbe_file, check_links,
                          copy_gbe, run_command, check_written, gbe_mv, exitf, TypeOK
      <3> QED
        BY <2>5, <3>1
    <2> QED
      BY <2>2, <2>3, <2>4, <2>5
  <1>3. CASE Settle \/ UNCHANGED vars
    BY <1>1, <1>3 DEF Settle, vars, Kept
  <1>4. CASE PowerLoss
    BY <1>4 DEF PowerLoss
  <1> QED
    BY <1>2, <1>3, <1>4 DEF Next

\* What EndsAsTold says of one user.
Told(u) ==
  /\ status'[u] = "ok" /\ writes(cmd[u]) => file' = GF!Result(cmd[u], gbe[u])
  /\ status'[u] = "failed" =>
       /\ file' = file
       /\ \/ faulty[u]
          \/ ~GF!Applies(cmd[u], gbe[u])
          \/ cmd[u].name = "setmac" /\ cmd[u].arg \in BadMacs
          \/ pc[u] = "fstat" /\ (linked[u] \/ replaced[u])

LEMMA StepTold ==
  ASSUME IInv, \A u \in Users : Honest(u), [Next]_vars,
         NEW u \in Users, pc[u] # "idle", pc'[u] = "idle"
  PROVE  Told(u)
  <1> USE DEF IInv, Told
  <1>1. ASSUME NEW v \in Users \ {u} PROVE ~(xstart(v) \/ Step(v) \/ Kill(v))
    BY <1>1, Others DEF Kept
  <1>2. CASE run_command(u)
    <2>1. /\ pc[u] = "run" /\ gbe[u] \in File /\ buf[u] = PartsOf(gbe[u])
          /\ file' = file
      BY <1>2 DEF run_command, Stage, Opened, Loaded
    <2>2. CASE \/ chksum_read(cmd[u]) /\ ~read_checksums(cmd[u], buf[u])
               \/ cmd[u].name = "setmac" /\ cmd[u].arg \in BadMacs
      <3>1. status'[u] = "failed"
        BY <1>2, <2>2 DEF run_command, Exit, TypeOK
      <3>2. ~read_checksums(cmd[u], buf[u]) => ~GF!Applies(cmd[u], gbe[u])
        <4>1. CASE cmd[u].name = "copy"
          <5>1. cmd[u].arg \in Part
            BY <4>1 DEF TypeOK, Readers, Writers, Command
          <5> QED
            BY <2>1, <4>1, <5>1, PartsType, Offsets, SameLayout
               DEF read_checksums, GF!Applies, Part
        <4>2. CASE cmd[u].name # "copy"
          BY <2>1, <4>2, PartsType, Offsets, SameLayout
             DEF read_checksums, GF!Applies, Part
        <4> QED
          BY <4>1, <4>2
      <3> QED
        BY <2>1, <2>2, <3>1, <3>2
    <2>3. CASE ~(\/ chksum_read(cmd[u]) /\ ~read_checksums(cmd[u], buf[u])
                 \/ cmd[u].name = "setmac" /\ cmd[u].arg \in BadMacs)
      <3>1. ~writes(cmd[u]) /\ status'[u] = "ok"
        BY <1>2, <2>3 DEF run_command, Exit, Goto, TypeOK
      <3> QED
        BY <3>1
    <2> QED
      BY <2>2, <2>3
  <1>3. CASE check_written(u)
    <2>1. pc[u] = "check" /\ file' = file /\ status'[u] = "failed"
          /\ ~(\A p \in Part : check_written_part(u, p))
      BY <1>3 DEF check_written, Exit, Goto, TypeOK
    <2> QED
      BY <2>1 DEF Honest
  <1>4. CASE gbe_mv(u)
    BY <1>4 DEF gbe_mv, Exit, Stage, Ready, TypeOK
  <1>5. CASE exitf(u)
    BY <1>5 DEF exitf, Exit, TypeOK
  <1>6. CASE Kill(u)
    BY <1>6 DEF Kill, TypeOK
  <1>7. CASE PowerLoss
    BY <1>7 DEF PowerLoss, TypeOK
  <1>8. ~(xstart(u) \/ open_gbe_file(u) \/ copy_gbe(u) \/ write_gbe_file(u) \/ fsync_tmp(u))
    BY DEF xstart, open_gbe_file, copy_gbe, write_gbe_file, fsync_tmp, Goto, TypeOK
  <1>9. ~Settle /\ ~UNCHANGED vars
    BY DEF Settle, vars
  <1>10. CASE check_links(u)
    <2>1. pc[u] = "fstat" /\ file' = file /\ status'[u] = "failed" /\ st_nlink(u) # 1
      BY <1>10 DEF check_links, Exit, Goto, TypeOK
    <2>2. linked[u] \/ replaced[u]
      BY <2>1 DEF st_nlink
    <2> QED
      BY <2>1, <2>2
  <1> QED
    BY <1>1, <1>2, <1>3, <1>4, <1>5, <1>6, <1>7, <1>8, <1>9, <1>10 DEF Next, Step

\* The exit status tells what happened to the file, and without I/O errors a
\* command that has a valid part to start from succeeds, unless the file has
\* another hard link or is replaced by another user just as it is opened.
THEOREM EndsAsToldCorrect == Spec => EndsAsTold
  <1> DEFINE H == \A u \in Users : Honest(u)
             T == \A u \in Users : pc[u] # "idle" /\ pc'[u] = "idle" => Told(u)
  <1>1. Init => H
    BY DEF Init, Honest
  <1>2. IInv /\ H /\ [Next]_vars => H'
    BY HonestNext
  <1>3. IInv /\ H /\ [Next]_vars => [T]_vars
    BY StepTold
  <1>4. EndsAsTold <=> [][T]_vars
    BY DEF EndsAsTold, Told
  <1> QED
    BY <1>1, <1>2, <1>3, <1>4, IInvCorrect, PTL DEF Spec

-----------------------------------------------------------------------------
\* Only a killed process leaves its temporary file.
THEOREM NothingLeftCorrect == Spec => []NothingLeft
  <1>1. Init => NothingLeft
    BY DEF Init, NothingLeft
  <1>2. IInv /\ NothingLeft /\ [Next]_vars => NothingLeft'
    <2> SUFFICES ASSUME IInv, NothingLeft, [Next]_vars, NEW v \in Users,
                        tname'[v], pc'[v] = "idle"
                 PROVE  status'[v] = "killed"
      BY DEF NothingLeft
    <2> USE DEF IInv, TypeOK, NothingLeft
    <2>1. ASSUME NEW u \in Users, xstart(u) \/ Step(u) \/ Kill(u)
          PROVE  status'[v] = "killed"
      <3> USE DEF Goto
      <3>1. ASSUME NEW s, Exit(u, s) PROVE v # u /\ UNCHANGED <<pc[v], tname[v], status[v]>>
        BY <3>1 DEF Exit, Gone, exit_cleanup
      <3>2. ASSUME v # u, UNCHANGED <<pc[v], tname[v], status[v]>>
            PROVE  status'[v] = "killed"
        BY <3>2
      <3>3. CASE xstart(u)
        BY <3>3 DEF xstart
      <3>4. CASE open_gbe_file(u) \/ copy_gbe(u) \/ write_gbe_file(u) \/ fsync_tmp(u)
        BY <3>4 DEF open_gbe_file, copy_gbe, write_gbe_file, fsync_tmp
      <3>5. CASE run_command(u)
        <4>1. (\E s : Exit(u, s)) \/ (Goto(u, "write") /\ UNCHANGED tname)
          BY <3>5 DEF run_command
        <4>2. QED
          BY <4>1, <3>1, <3>2
      <3>6. CASE check_written(u)
        <4>1. (\E s : Exit(u, s)) \/ (Goto(u, "mv") /\ UNCHANGED tname)
          BY <3>6 DEF check_written
        <4>2. QED
          BY <4>1, <3>1, <3>2
      <3>10. CASE check_links(u)
        <4>1. (\E s : Exit(u, s)) \/ (Goto(u, "read") /\ UNCHANGED tname)
          BY <3>10 DEF check_links
        <4>2. QED
          BY <4>1, <3>1, <3>2
      <3>7. CASE gbe_mv(u) \/ exitf(u)
        <4>1. \E s : Exit(u, s)
          BY <3>7 DEF gbe_mv, exitf
        <4>2. QED
          BY <4>1, <3>1, <3>2
      <3>8. CASE Kill(u)
        BY <3>8 DEF Kill, Gone
      <3>9. QED
        BY <2>1, <3>3, <3>4, <3>5, <3>6, <3>7, <3>8, <3>10 DEF Step
    <2>2. CASE Settle
      BY <2>2 DEF Settle
    <2>3. CASE PowerLoss
      BY <2>3 DEF PowerLoss
    <2>4. CASE UNCHANGED vars
      BY <2>4 DEF vars
    <2> QED
      BY <2>1, <2>2, <2>3, <2>4 DEF Next
  <1> QED
    BY <1>1, <1>2, IInvCorrect, PTL DEF Spec
=============================================================================
