---------------------------- MODULE SensorConfig ----------------------------
(***************************************************************************)
(* readConfig() of pi_common/config.py: what a sensor makes of its config  *)
(* file.  A file is a function from its keys to values.  A value is a      *)
(* record: whether it comes from a JSON file (in a text file every value   *)
(* is a string), and the number it stands for, Typo if it is none, or      *)
(* Empty.                                                                  *)
(***************************************************************************)
EXTENDS Integers

CONSTANTS
  Typo,      \* a value that int() and float() refuse
  Empty,     \* the empty string
  Absent     \* no value: the key is missing, or JSON null

ASSUME ConfigAssumption == {Typo, Empty} \cap Int = {}

DEFAULT_CLEANUP_DAYS == 1

\* config_data.get(key)
Get(file, key) == IF key \in DOMAIN file THEN file[key] ELSE Absent

IsNumber(v) == v # Absent /\ v.value \notin {Typo, Empty}

\* Python's truth: "" and the number 0 are false, the string "0" is true.
Truthy(v) == v # Absent /\ v.value # Empty /\ ~(v.json /\ v.value = 0)

\* a or b
Or(a, b) == IF Truthy(a) THEN a ELSE b

\* to_number(): a typo falls back to the default.
ToNumber(v, fallback) == IF IsNumber(v) THEN v.value ELSE fallback

AtLeastZero(n) == IF n < 0 THEN 0 ELSE n

\* Mutated form: max(0, ...) is missing.
CleanupDaysSigned(file) ==
  LET v == Or(Get(file, "Retention"), Get(file, "cleanupDays"))
  IN  IF v = Absent THEN DEFAULT_CLEANUP_DAYS ELSE ToNumber(v, DEFAULT_CLEANUP_DAYS)

\* Mutated form: a typo counts as no retention.
CleanupDaysOfTypo(file) ==
  LET v == Or(Get(file, "Retention"), Get(file, "cleanupDays"))
  IN  IF v = Absent THEN DEFAULT_CLEANUP_DAYS ELSE AtLeastZero(ToNumber(v, 0))

\* cleanupDays.  The last operand of `or` is taken as it is.
CleanupDays(file) ==
  LET v == Or(Get(file, "Retention"), Get(file, "cleanupDays"))
  IN  IF v = Absent THEN DEFAULT_CLEANUP_DAYS
      ELSE AtLeastZero(ToNumber(v, DEFAULT_CLEANUP_DAYS))

\* A file without a type or a location is refused.
Accepted(file) ==
  /\ Truthy(Or(Or(Get(file, "Type"), Get(file, "sensorType")), Get(file, "type")))
  /\ Truthy(Or(Or(Get(file, "Location"), Get(file, "locationName")), Get(file, "location")))

-----------------------------------------------------------------------------
(* What the comments of the file say about the setting, to compare with.   *)

\* An empty value sets nothing.
Given(v) == v # Absent /\ v.value # Empty

\* "Days to keep a reading", 0 included; a typo falls back to the default.
DaysAsked(file) ==
  LET v == IF Given(Get(file, "Retention")) THEN Get(file, "Retention")
           ELSE Get(file, "cleanupDays")
  IN  AtLeastZero(ToNumber(v, DEFAULT_CLEANUP_DAYS))

=============================================================================
