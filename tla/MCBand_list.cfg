SPECIFICATION Spec
CONSTANTS
  Freqs <- MCFreqs
INVARIANTS ListedBandKnown
