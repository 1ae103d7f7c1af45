\* One notification and two dispatchers: one device that changes hands between a customer and
\* a runner, or two devices the customer signed out on.
CONSTANTS
  phone = phone  tablet = tablet
  Event = {assigned}
  Device = {phone, tablet}
  Start <- PhoneInUseOrTwoLeft
  Person = {ann, bob}
  Runners = {bob}
  Staff = {}
  Customer = ann
  Dispatcher = {d1, d2}
  Nobody = Nobody
  Loading = Loading
  MaxAttempts = 2
SPECIFICATION FairSpec
INVARIANTS AgainOnlyAfterALostClaim SentMeansTaken
PROPERTIES SentStays EventIsSettled AreaFollowsSession
