--------------------------- MODULE MCFrameReader ---------------------------
(* Instances of FrameReader for TLC. *)
EXTENDS FrameReader

Kind(header, total, defect) == [header_len |-> header, total_len |-> total, defect |-> defect]

\* Good packets of the least size, of the limit, and with a long header; one byte
\* above the limit; and malformed in each place.
Mixed == {Kind(2, 2, "none"), Kind(2, 6, "none"), Kind(5, 6, "none"), Kind(2, 7, "none"),
          Kind(2, 3, "first"), Kind(5, 5, "header"), Kind(2, 4, "body")}
=============================================================================
