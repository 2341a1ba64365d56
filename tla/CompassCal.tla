----------------------------- MODULE CompassCal -----------------------------
(***************************************************************************)
(* How the common calibration library calibrates the magnetometer:         *)
(* convert_magnetic() and the buffers it feeds.  AKFS_AOC() keeps the      *)
(* newest samples, fits a sphere to four of them as soon as there are four *)
(* and keeps the newest centres; when these agree their mean becomes the   *)
(* offset.  The offset is taken from every sample, the newest of which are *)
(* averaged, and the event's accuracy says whether to believe the result.  *)
(*                                                                         *)
(* Numbers are left out: which samples fit a sphere, which centres agree   *)
(* and when the field is too strong is chosen freely.  What is kept is     *)
(* what every place of every buffer holds.                                 *)
(***************************************************************************)
EXTENDS Integers

CONSTANTS
  HBufSize,   \* AKFS_HBUF_SIZE, 20
  HOBufSize,  \* AKFS_HOBUF_SIZE, 4
  HNave,      \* CSPEC_HNAVE_V, 8: as much of fva_hvbuf as is ever read
  MaxSamples  \* bound on the samples counted

ASSUME SizeAssumption ==
  /\ HBufSize \in Nat /\ HBufSize >= 4
  /\ HOBufSize \in Nat \ {0} /\ HNave \in Nat \ {0} /\ MaxSamples \in Nat

VARIABLES
  hbuf,       \* haocv->hbuf: a "sample" at a place, newest first, or "none",
              \* the initial AKFS_FMAX
  hobuf,      \* haocv->hobuf: a "centre" or "none"
  ho,         \* fv_ho: the initial "zero", or an estimated "offset"
  hvbuf,      \* fva_hvbuf: what was taken from the sample, or "none"
  hstatus,    \* i16_hstatus: 0, or 3, the highest accuracy
  samples     \* how many samples there have been

calVars == <<hbuf, hobuf, ho, hvbuf, hstatus, samples>>

\* cal_init()
CalInit ==
  /\ hbuf = [k \in 1 .. HBufSize |-> "none"]
  /\ hobuf = [k \in 1 .. HOBufSize |-> "none"]
  /\ ho = "zero"
  /\ hvbuf = [k \in 1 .. HNave |-> "none"]
  /\ hstatus = 0 /\ samples = 0

\* Mutant: the last value of a buffer is moved out of it.
shifted_overrun(buf, v) ==
  [k \in {1} \cup {m + 1 : m \in DOMAIN buf} |-> IF k = 1 THEN v ELSE buf[k - 1]]

\* A buffer moved by one place to take v.
shifted(buf, v) == [k \in DOMAIN buf |-> IF k = 1 THEN v ELSE buf[k - 1]]

\* The place of the oldest sample, if that is far enough for four of them.
num(buf) ==
  LET filled == {k \in 4 .. HBufSize : buf[k] = "sample"}
  IN  IF filled = {} THEN 0 ELSE CHOOSE k \in filled : \A m \in filled : m <= k

\* Mutant: the newer half of the samples is dropped.
dropped_newer(buf) ==
  [k \in DOMAIN buf |-> IF k > HBufSize \div 2 THEN buf[k] ELSE "none"]

\* The older half of the samples is dropped after a fit.
dropped(buf) ==
  [k \in DOMAIN buf |-> IF k <= HBufSize \div 2 THEN buf[k] ELSE "none"]

\* Mutant: the centres are compared before there are enough.
AOC_early(fits, agree, success) ==
  LET buf == shifted(hbuf, "sample")
      fitted == num(buf) # 0 /\ fits
  IN  /\ hbuf' = IF fitted THEN dropped(buf) ELSE buf
      /\ hobuf' = IF fitted THEN shifted(hobuf, "centre") ELSE hobuf
      /\ success = (fitted /\ agree)

\* AKFS_AOC(): a sphere fits or not, and if so the centres agree or not.
AOC(fits, agree, success) ==
  LET buf == shifted(hbuf, "sample")
      fitted == num(buf) # 0 /\ fits
  IN  /\ hbuf' = IF fitted THEN dropped(buf) ELSE buf
      /\ hobuf' = IF fitted THEN shifted(hobuf, "centre") ELSE hobuf
      /\ success = (fitted /\ hobuf'[HOBufSize] = "centre" /\ agree)

\* The averaged field is too strong, or a fresh offset makes it trustworthy.
status(strong, success) == IF strong THEN 0 ELSE IF success THEN 3 ELSE hstatus

\* convert_magnetic() for one sample.
Convert ==
  /\ samples < MaxSamples
  /\ samples' = samples + 1
  /\ \E fits, agree, strong, success \in BOOLEAN :
       /\ AOC(fits, agree, success)
       /\ ho' = IF success THEN "offset" ELSE ho
       /\ hstatus' = status(strong, success)
  /\ hvbuf' = shifted(hvbuf, ho')

CalNext == Convert

CalSpec == CalInit /\ [][CalNext]_calVars

-----------------------------------------------------------------------------
BuffersOK ==
  /\ hbuf \in [1 .. HBufSize -> {"none", "sample"}]
  /\ hobuf \in [1 .. HOBufSize -> {"none", "centre"}]
  /\ ho \in {"zero", "offset"}
  /\ hvbuf \in [1 .. HNave -> {"none", "zero", "offset"}]
  /\ hstatus \in {0, 3}
  /\ samples \in 0 .. MaxSamples

\* No buffer ever has an initial value before a sample: the fit is given
\* places 1 .. num, so that one of AKFS_FMAX among them would be taken for a
\* sample (AKFS_AOC.c:252-264), and the average stops at the first it meets
\* (AKFS_VNorm.c:101-106).
NoInitialUsed ==
  /\ \A k \in 2 .. HBufSize : hbuf[k] # "none" => hbuf[k - 1] # "none"
  /\ \A k \in 2 .. HOBufSize : hobuf[k] # "none" => hobuf[k - 1] # "none"
  /\ \A k \in 2 .. HNave : hvbuf[k] # "none" => hvbuf[k - 1] # "none"

\* The highest accuracy is never claimed before an offset has been taken
\* from the samples, the newest one included, nor before there have been as
\* many samples as the centres that must agree need: four for the first, one
\* more for each other (common_wrapper.c:178-184).
HighIsCalibrated ==
  hstatus = 3 =>
    /\ ho = "offset" /\ hvbuf[1] = "offset"
    /\ samples >= HOBufSize + 3
=============================================================================
