------------------------------ MODULE MCLights ------------------------------
(* Lights for TLC: a state that is off, one that is lit without a flash, and *)
(* one for each way to flash.                                                *)
EXTENDS Lights, TLC

Request(color, mode, time) == [color |-> color, flashMode |-> mode, flashOnMS |-> time]

MCRequests ==
    {Request(<<0, 0, 0>>, "LIGHT_FLASH_NONE", 0),
     Request(<<1, 3, 2>>, "LIGHT_FLASH_NONE", 5),
     Request(<<2, 1, 0>>, "LIGHT_FLASH_TIMED", 5),
     Request(<<4, 0, 1>>, "LIGHT_FLASH_HARDWARE", 7)}

MCSymmetry == Permutations(Threads)
=============================================================================
