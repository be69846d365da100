---------------------------- MODULE Preferences ----------------------------
(***************************************************************************)
(* The settings that are numbers (SettingsView.swift): what is typed is    *)
(* clamped, saved and, for the two rates, handed to the engine, in bytes   *)
(* per second where the setting has fractions.  Observers run on the main  *)
(* actor and set again what they observe: one step each.                   *)
(***************************************************************************)
EXTENDS Naturals, Integers

CONSTANTS
  Fraction,  \* parts of a byte per second that a setting can tell apart
  MaxRate,   \* maxMBps, in such parts
  MaxU32,    \* UInt32.max, in bytes
  MinRate,   \* MIN_RATE_LIMIT, in bytes
  Numbers    \* what can be typed or found in the defaults, in parts

VARIABLES
  settings,  \* what the settings window shows
  saved,     \* UserDefaults
  attached,  \* there is a session
  limits     \* of the engine: a set of at most one, None is no limit

vars == <<settings, saved, attached, limits>>

Rate == {"download", "upload"}
Setting == Rate \cup {"ratio"}

\* Double, of which NaN and the infinities are one.
Double == {[finite |-> TRUE, n |-> n] : n \in Numbers} \cup {[finite |-> FALSE, n |-> 0]}
Finite(n) == [finite |-> TRUE, n |-> n]

\* Mutant of ClampRate: only from below.
ClampRateBelow(v) == Finite(IF v.finite /\ v.n > 0 THEN v.n ELSE 0)

ClampRate(v) ==
  Finite(IF ~v.finite \/ v.n < 0 THEN 0 ELSE IF v.n > MaxRate THEN MaxRate ELSE v.n)

Clamp(k, v) ==
  IF k \in Rate THEN ClampRate(v) ELSE Finite(IF v.finite /\ v.n > 0 THEN v.n ELSE 0)

\* UInt32(_: Double), which cuts the fraction off and traps beyond its range.
Bytes(v) == v.n \div Fraction
Traps(v) == ~v.finite \/ v.n < 0 \/ Bytes(v) > MaxU32

\* set_rate_limits of the core
Limit(bps) == {IF bps < MinRate THEN MinRate ELSE bps : b \in {bps} \ {0}}

\* applyLimits
ApplyLimits(s) == [k \in Rate |-> Limit(Bytes(s[k]))]

\* Without a clamp for the ratio.
Load(d) == [k \in Setting |-> IF k \in Rate THEN ClampRate(d[k]) ELSE d[k]]

Init ==
  /\ saved \in [Setting -> Double]
  /\ settings = Load(saved)
  /\ attached = FALSE /\ limits = [k \in Rate |-> {}]

\* The observer of k: a value that is not the clamped one is set again.
Type(k, v) ==
  /\ settings' = [settings EXCEPT ![k] = Clamp(k, v)]
  /\ saved' = [saved EXCEPT ![k] = Clamp(k, v)]
  /\ limits' = IF attached /\ k \in Rate THEN ApplyLimits(settings') ELSE limits
  /\ UNCHANGED attached

Attach ==
  /\ ~attached /\ attached' = TRUE
  /\ limits' = ApplyLimits(settings)
  /\ UNCHANGED <<settings, saved>>

\* The program ends, and starts again.
Relaunch ==
  /\ settings' = Load(saved)
  /\ attached' = FALSE /\ limits' = [k \in Rate |-> {}]
  /\ UNCHANGED saved

Next == (\E k \in Setting, v \in Double : Type(k, v)) \/ Attach \/ Relaunch

(***************************************************************************)
(* Properties.                                                             *)
(***************************************************************************)

\* "0 = unlimited. Applies immediately, session-wide."  Whatever was typed, or
\* is found in the defaults, the rates that are shown survive the conversion,
\* and a session has them: one byte per second or more is a limit, no looser
\* than it says unless it is below the smallest there is.  The next launch
\* shows the same rates.
LimitsFollow ==
  \A k \in Rate :
    /\ ~Traps(settings[k]) /\ Load(saved)[k] = settings[k]
    /\ attached =>
         IF settings[k].n < Fraction THEN limits[k] = {}
         ELSE \E bps \in limits[k] :
                /\ bps >= MinRate
                /\ bps > MinRate => bps * Fraction <= settings[k].n /\ settings[k].n < (bps + 1) * Fraction

=============================================================================
