------------------------------- MODULE SpkModem ----------------------------
(***************************************************************************)
(* spkmodem-decode (util/spkmodem_decode/spkmodem-decode.c): audio samples *)
(* become pulses in a ring buffer of two frames; the pulses in its older   *)
(* and in its newer half, the data and the separator window, are counted   *)
(* as they move along; after each frame the two counts may give a bit, and *)
(* eight bits a character.  The range of the separator tone and the        *)
(* threshold between the two data tones are adjusted on the way.           *)
(*                                                                         *)
(* The names of the specification begin with Modem, so that UtilProofs can *)
(* extend this module with those of the other utilities.                   *)
(***************************************************************************)
EXTENDS Integers, FiniteSets, Sequences

CONSTANTS
  SAMPLES_PER_FRAME,
  Samples,        \* the amplitudes
  THRESHOLD,      \* below it, amplitudes and edges are noise
  FREQ_SEP_MIN, FREQ_SEP_MAX, FREQ_DATA_THRESHOLD,   \* in pulses per frame
  SEP_TOLERANCE_PULSES,
  CalFrames,      \* the separator is calibrated every so many frames (50)
  LEARN_FRAMES,   \* the data tones are learnt from so many frames
  Bits            \* of a character (8)

N == SAMPLES_PER_FRAME

ASSUME SpkModemAssumption ==
  /\ N \in Nat \ {0}
  /\ Samples \subseteq Int /\ 0 \in Samples
  /\ THRESHOLD \in Nat
  /\ FREQ_SEP_MIN \in Nat /\ FREQ_DATA_THRESHOLD \in Nat
  /\ SEP_TOLERANCE_PULSES \in Nat
  /\ FREQ_SEP_MAX = FREQ_SEP_MIN + 2 * SEP_TOLERANCE_PULSES
  /\ CalFrames \in Nat \ {0} /\ LEARN_FRAMES \in Nat \ {0} /\ Bits \in Nat \ {0}

Ring == 0..(2 * N - 1)   \* MAX_SAMPLES

VARIABLES
  stage,           \* "start" of a frame, or in the middle of its "pulses"
  pulse,           \* the ring buffer
  ringpos,         \* its oldest entry, where the data window begins
  sep_pos,         \* where the separator window begins
  freq_data,       \* the pulses in the data window
  freq_separator,  \* and in the separator window
  sample_count,    \* the samples of this frame
  prev_sample,
  ascii,           \* the bits that are set in the unfinished character
  ascii_bit,       \* the number of the next bit
  out,             \* <<the last character printed>>, or <<>>
  sep_sum, sep_samples, sep_min, sep_max,              \* separator calibration
  freq_min, freq_max, freq_threshold, learn_frames     \* tone detection

ringVars  == <<pulse, ringpos, sep_pos, freq_data, freq_separator, prev_sample>>
charVars  == <<ascii, ascii_bit, out>>
sepVars   == <<sep_sum, sep_samples, sep_min, sep_max>>
toneVars  == <<freq_min, freq_max, freq_threshold, learn_frames>>
modemVars ==
  <<stage, pulse, ringpos, sep_pos, freq_data, freq_separator, sample_count,
    prev_sample, ascii, ascii_bit, out, sep_sum, sep_samples, sep_min, sep_max,
    freq_min, freq_max, freq_threshold, learn_frames>>

ModemTypeOK ==
  /\ stage \in {"start", "pulses"}
  /\ pulse \in [Ring -> {0, 1}]
  /\ ringpos \in Ring /\ sep_pos \in Ring
  /\ freq_data \in 0..N /\ freq_separator \in 0..N
  /\ sample_count \in 0..N
  /\ prev_sample \in Samples
  /\ ascii \subseteq 0..(Bits - 1) /\ ascii_bit \in 0..(Bits - 1)
  /\ out \in {<<>>} \cup {<<c>> : c \in SUBSET (0..(Bits - 1))}
  /\ sep_sum \in Nat /\ sep_samples \in 0..(CalFrames - 1)
  /\ sep_min \in Int /\ sep_max \in Int
  /\ freq_min \in Nat /\ freq_max \in Nat /\ freq_threshold \in Nat
  /\ learn_frames \in 0..LEARN_FRAMES

ModemInit ==
  /\ stage = "start"
  /\ pulse = [k \in Ring |-> 0]
  /\ ringpos = 0 /\ sep_pos = N
  /\ freq_data = 0 /\ freq_separator = 0 /\ sample_count = 0 /\ prev_sample = 0
  /\ ascii = {} /\ ascii_bit = Bits - 1 /\ out = <<>>
  /\ sep_sum = 0 /\ sep_samples = 0
  /\ sep_min = FREQ_SEP_MIN /\ sep_max = FREQ_SEP_MAX
  /\ freq_min = 100000 /\ freq_max = 0
  /\ freq_threshold = FREQ_DATA_THRESHOLD /\ learn_frames = 0

-----------------------------------------------------------------------------
(* Mutants: what a plausible slip would make of a definition below. *)

\* The pulse that leaves the data window is looked up after the new one has
\* taken its place.
pulse_leaving_late(new) == freq_data' = freq_data - new + pulse[sep_pos]

\* The lowest bit comes first.
lowest_bit_first == ascii \cup {Bits - 1 - ascii_bit}

-----------------------------------------------------------------------------
(* Samples. *)

Magnitude(i) == IF i < 0 THEN -i ELSE i

\* An edge that is high enough and ends high enough.  The first sample of a
\* frame is compared with itself.
new_pulse(sample) ==
  LET prev == IF sample_count = 0 THEN sample ELSE prev_sample
  IN  IF Magnitude(sample - prev) > THRESHOLD /\ Magnitude(sample) > THRESHOLD
        THEN 1 ELSE 0

Advance(pos) == IF pos + 1 >= 2 * N THEN 0 ELSE pos + 1

\* The data window loses its oldest pulse and gains the one that leaves the
\* separator window ...
data_window(new) == freq_data' = freq_data - pulse[ringpos] + pulse[sep_pos]

\* ... which gains the new one.
separator_window(new) == freq_separator' = freq_separator - pulse[sep_pos] + new

decode_pulse(sample) ==
  /\ stage = "pulses" /\ sample_count < N
  /\ data_window(new_pulse(sample))
  /\ separator_window(new_pulse(sample))
  /\ pulse' = [pulse EXCEPT ![ringpos] = new_pulse(sample)]
  /\ prev_sample' = sample
  /\ ringpos' = Advance(ringpos) /\ sep_pos' = Advance(sep_pos)
  /\ sample_count' = sample_count + 1
  /\ UNCHANGED <<stage, charVars, sepVars, toneVars>>

-----------------------------------------------------------------------------
(* Frames. *)

reset_char == ascii' = {} /\ ascii_bit' = Bits - 1

\* handle_audio, before the samples of a frame: without a separator tone an
\* unfinished character is given up.
begin_frame ==
  /\ stage = "start"
  /\ IF sample_count >= 3 * N \/ freq_separator <= 0
       THEN reset_char ELSE UNCHANGED <<ascii, ascii_bit>>
  /\ sample_count' = 0
  /\ stage' = "pulses"
  /\ UNCHANGED <<ringVars, out, sepVars, toneVars>>

is_valid_signal(lo, hi) == freq_data > 0 /\ freq_separator \in lo..hi

reset_accumulators == sep_sum' = 0 /\ sep_samples' = 0

select_separator_tone ==
  IF ~is_valid_signal(sep_min, sep_max)
    THEN UNCHANGED sepVars
  ELSE IF sep_samples + 1 # CalFrames
    THEN /\ sep_sum' = sep_sum + freq_separator /\ sep_samples' = sep_samples + 1
         /\ UNCHANGED <<sep_min, sep_max>>
  ELSE LET avg == (sep_sum + freq_separator) \div CalFrames
       IN  /\ sep_min' = avg - SEP_TOLERANCE_PULSES
           /\ sep_max' = avg + SEP_TOLERANCE_PULSES
           /\ reset_accumulators

with_bit == ascii \cup {ascii_bit}

\* The range of the separator tone is already the new one.
set_ascii_bit ==
  IF ~is_valid_signal(sep_min', sep_max')
    THEN UNCHANGED charVars
    ELSE LET new == IF freq_data < freq_threshold THEN with_bit ELSE ascii
         IN  IF ascii_bit > 0
               THEN ascii' = new /\ ascii_bit' = ascii_bit - 1 /\ UNCHANGED out
               ELSE out' = <<new>> /\ reset_char   \* print_char

silent_signal == freq_data <= 2 /\ freq_separator <= 2

low_tone ==
  IF freq_data <= 0 \/ (freq_separator > 0 /\ freq_separator < freq_data)
    THEN freq_separator ELSE freq_data

select_low_tone ==
  /\ freq_min' = IF low_tone > 0 /\ low_tone < freq_min THEN low_tone ELSE freq_min
  /\ freq_max' = IF low_tone > 0 /\ low_tone > freq_max THEN low_tone ELSE freq_max

\* Otherwise only one tone was heard.
two_tones == freq_max' - freq_min' >= 2

detect_tone ==
  IF learn_frames >= LEARN_FRAMES
    THEN UNCHANGED toneVars
    ELSE /\ learn_frames' = learn_frames + 1
         /\ IF silent_signal
              THEN UNCHANGED <<freq_min, freq_max, freq_threshold>>
              ELSE /\ select_low_tone
                   /\ freq_threshold' =
                        IF learn_frames' = LEARN_FRAMES /\ two_tones
                          THEN (freq_min' + freq_max') \div 2
                          ELSE freq_threshold

\* handle_audio, after them.
end_frame ==
  /\ stage = "pulses" /\ sample_count = N
  /\ select_separator_tone
  /\ set_ascii_bit
  /\ detect_tone
  /\ stage' = "start"
  /\ UNCHANGED <<ringVars, sample_count>>

\* Samples come for ever: at the end of the input the program exits.
ModemNext == begin_frame \/ (\E sample \in Samples : decode_pulse(sample)) \/ end_frame

ModemSpec == ModemInit /\ [][ModemNext]_modemVars

-----------------------------------------------------------------------------
\* The N entries of the ring from one position on.
Window(from) == {k \in Ring : (from <= k /\ k < from + N) \/ k < from - N}

Pulses(window) == Cardinality({k \in window : pulse[k] = 1})

\* The counts that are kept up to date sample by sample are the numbers of
\* pulses in the two windows ("equivalent to a rectangular FIR filter"), which
\* share the ring buffer between them.
WindowSums ==
  /\ freq_data = Pulses(Window(ringpos))
  /\ freq_separator = Pulses(Window(sep_pos))

\* The value of a bit of a character.
Bit(n, char) == IF n \in char THEN 1 ELSE 0

\* Characters are made of successive bits, highest first, and printed when
\* they are complete; a gap never leaves some of the bits of a character.
R == INSTANCE Receiver WITH
       received <- [i \in 1..(Bits - 1 - ascii_bit) |-> Bit(Bits - i, ascii)],
       printed  <- IF out = <<>> THEN <<>>
                   ELSE [i \in 1..Bits |-> Bit(Bits - i, out[1])]

ImplementsReceiver == R!Spec

\* A calibration moves the accepted range to the average of what was accepted:
\* its width stays the same, and it moves by no more than half of that.
CalibrationFollows ==
  [][/\ sep_max' - sep_min' = 2 * SEP_TOLERANCE_PULSES
     /\ Magnitude(sep_min' - sep_min) <= SEP_TOLERANCE_PULSES]_modemVars

\* A learnt threshold is between the tones it was learnt from, so that they
\* are told apart.
ThresholdBetween ==
  freq_threshold # FREQ_DATA_THRESHOLD =>
    freq_min < freq_threshold /\ freq_threshold < freq_max

=============================================================================
