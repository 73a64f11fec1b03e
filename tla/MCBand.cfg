SPECIFICATION Spec
CONSTANTS
  Freqs <- MCFreqs
INVARIANTS BandTypeOK CallerKnowsBand
PROPERTIES NoIdleChange
