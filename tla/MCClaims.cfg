SPECIFICATION ClaimsSpec
CONSTANT None = None
INVARIANT SomeClaimStands
VIEW Seen
CHECK_DEADLOCK FALSE
