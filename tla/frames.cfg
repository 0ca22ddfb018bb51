\* Two short packets and the longest one that fits.  Every burst of up to eight
\* bits that leaves the size (byte 4) alone: anywhere in the frames of the short
\* packets, in the first eight bytes of the long one.
SPECIFICATION Spec
CONSTANTS
  Dests = {1, 2, 255}
  Payloads <- Short
  Sensitive = {1, 2, 3, 5, 6, 7, 8}
INVARIANTS TypeOK Intact FinalizedIsRouted
