------------------------------- MODULE Methods -------------------------------
(***************************************************************************)
(* The device methods of include/enum.h that the drivers of the air        *)
(* conditioners, curtains and fresh air machines tell apart.               *)
(***************************************************************************)
EXTENDS Integers

Temperatures == {10} \cup (18..30)
SWING_AUTO == 41
SWING_UP_DOWN == 42
SWING_LEFT_RIGHT == 43
SWING_BOTH == 44
FAN_AUTO == 51
FAN_HIGH == 52
FAN_MIDDLE == 53
FAN_LOW == 54
MODE_FANING == 61
MODE_HEATING == 62
MODE_COOLING == 63
MODE_DRYING == 64
MODE_AUTOING == 65
AIR_OFF == 71
AIR_ON == 72
AIR_RESTART == 73
AIR_INFO == 81

CURTAIN_OPEN == 101
CURTAIN_CLOSE == 102
CURTAIN_SET_PERCENT == 103
CURTAIN_RESET == 104
CURTAIN_INFO == 105

FRESH_ON == 201
FRESH_OFF == 202
FRESH_RESET == 203
FRESH_INFO == 204
=============================================================================
