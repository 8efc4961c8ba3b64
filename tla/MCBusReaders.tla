----------------------------- MODULE MCBusReaders -----------------------------
(* A small instance of BusReaders.  audio.broadcast.ready begins like no   *)
(* channel's prefix.                                                       *)
EXTENDS BusReaders

MCChannelsOf == [type \in {"generate", "generated", "ready"} |->
                    IF type = "ready" THEN {} ELSE {"broadcast"}]
===============================================================================
