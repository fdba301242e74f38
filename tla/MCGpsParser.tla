----------------------------- MODULE MCGpsParser -----------------------------
(* GpsParser for TLC: short messages, whole and damaged, in every order. *)
EXTENDS GpsParser

HeaderWith(type, length) ==
  <<GPS_MAGIC_NUMBER, type, length, 32768,
    Checksum(GPS_MAGIC_NUMBER, type, length, 32768)>>
Header(type) == HeaderWith(type, Size(type) - 6)

\* In air navigation and valid, aligning, and two positions
Whole == {Header(3500) \o <<7, 1>>, Header(3500) \o <<4, 0>>,
          Header(3501) \o <<0, 0, 0>>,
          Header(3501) \o <<GPS_MAGIC_NUMBER, 3500, 1>>}

\* False starts: cut off, another length, a wrong checksum that may itself begin a
\* message, and a message of no interest
Damaged == {SubSeq(Header(3500), 1, n) : n \in 1 .. 5}
             \cup {HeaderWith(3500, Size3501 - 6), <<GPS_MAGIC_NUMBER, 3512, 1>>,
                   <<GPS_MAGIC_NUMBER, 3501, 2, 32768, GPS_MAGIC_NUMBER>>}

MCStreams == {a \o b \o c : a \in Whole \cup Damaged, b \in Whole \cup Damaged,
                            c \in Whole}
=============================================================================
