------------------------------- MODULE ClockTime -------------------------------
(***************************************************************************)
(* The arithmetic of clock.ml that needs no state: the time of day in an   *)
(* answer of the time server, and the brightness of the display.           *)
(***************************************************************************)
EXTENDS Integers

Byte == 0 .. 255

(* ntp_query: the seconds since 1900 modulo a day, from the four bytes of  *)
(* the answer, which are too many bits for an OCaml integer.               *)
Raw(b0, b1, b2, b3) == b0 * 15616 + b1 * 65536 + b2 * 256 + b3

SecondsOfDay(b0, b1, b2, b3) == Raw(b0, b1, b2, b3) % 86400

(* The time is passed on, and shown, as hours, minutes and seconds. *)
Hours(s) == s \div 3600

Minutes(s) == (s % 3600) \div 60

SecondsPast(s) == s % 60

(* display_digit: the entry of the table of segments that is read for row  *)
(* and column c of a digit.                                                *)
Segment(digit, row, c) == digit * 12 + row * 3 + c

MinBright == 7935
MaxBright == 65535

backlight_of_time(s) ==
    IF s < 21600 THEN MinBright
    ELSE IF s < 25200 THEN MinBright + (s - 21600) * 16
    ELSE IF s < 75600 THEN MaxBright
    ELSE IF s < 79200 THEN MaxBright - (s - 75600) * 16
    ELSE MinBright

(* What the four bytes mean: seconds since 1900, big-endian *)
Seconds1900(b0, b1, b2, b3) == b0 * 16777216 + b1 * 65536 + b2 * 256 + b3

===============================================================================
