\* Two processes draw from one nonce file, the taker closes residuals, books are watched and kept,
\* and Lighter orders are sent and resolved.
SPECIFICATION CSpec
CONSTANTS
    Process = {p1, p2}
    Clock <- MCClock
    MaxLead = 1
    MaxNonce = 5
    Nobody = Nobody
    MaxSends = 3
INVARIANTS TypeOK Increasing SendsAreKnown
PROPERTIES
    DispenserSpec ClosesOnce FeedSupervised BooksAreTheVenues
    ToldIsTheVenues
CHECK_DEADLOCK FALSE
