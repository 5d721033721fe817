CONSTANTS
  Users = {a, b}
  FirstAdmin = a
  Requests = {r, q}
  MaxRows = 4
  MaxVersion = 1
  Names = {a}
  Address = ip
  Threads = {s, t}
  MaxAttempts = 2
  Window = 5
  TicksPerSecond = 2
SYMMETRY Alike
SPECIFICATION SignInSpec
INVARIANTS SomeoneCanAdminister OldTokensAreDead AttemptsAreThrottled
