\* Three offers and two requests; the commands of an offer with two channels
\* are more than one message to the media engine holds.
SPECIFICATION Spec
\* A session ends.
CHECK_DEADLOCK FALSE
CONSTANTS
    Offers <- MCOffers
    MAX_MPF_MESSAGE_COUNT = 5
    MaxOffers = 3
    MaxRequests = 2
INVARIANTS
    SubrequestsCounted
    RepliesFindAnswer
    OfferAnsweredOnce
    NothingOutlivesSession
PROPERTY
    SessionEnds
