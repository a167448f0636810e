\* A user with one text, a notification of two, three requests in all.
CONSTANTS
  Messages = {m1, m2, m3}
  Programs = {"entrypoint"}
  MaxRefused = 0
  Users = {u}
  Webhooks = {w}
  UserTexts = 1
  WebhookTexts = 2
SPECIFICATION MsgFairSpec
INVARIANTS InOrderOnce AnsweredIsRemembered
PROPERTIES SendersAnswered
CHECK_DEADLOCK FALSE
