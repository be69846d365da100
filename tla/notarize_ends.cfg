CONSTANTS PollTimeout = 7 PollInterval = 2 MaxPollFailures = 3 MaxAsking = 1
SPECIFICATION Spec
PROPERTY Ends
