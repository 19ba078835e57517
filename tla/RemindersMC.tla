---------------------------- MODULE RemindersMC ----------------------------
(* A day that has a first seder only and a day on which nothing may be     *)
(* said; the sedarim start at 9 and 16, the report is asked for at 20.     *)
EXTENDS Reminders
TwoDays == <<"fast", "quiet">>
TwoStarts == <<540, 960>>
=============================================================================
